---- MODULE Spec2Model ----
(***************************************************************************)
(* A model of the SEC EDGAR log pipeline: the geolocation cache of         *)
(* scripts/lib/ip_retriever.py (IPRetriever) and the stages of             *)
(* scripts/lib/sec_edgar.py (SECEdgar.preprocess): download, extraction,   *)
(* conversion, cleaning, enrichment and country normalisation.             *)
(*                                                                         *)
(* Encoding of values.  A nullable value is a sequence of length at most   *)
(* one: Null is <<>> and Some(v) is <<v>>.  An ip string is the sequence   *)
(* of its dot-separated segments, each the sequence of its characters.     *)
(* A geolocation or mapping table is the sequence of its rows, in file     *)
(* order; a table of log records is the bag of its rows.                   *)
(*                                                                         *)
(* Specifications.  Spec: calls of get_ip_from_ip2location on IPRetriever  *)
(* instances.  SpecInterrupted: the same with interruptions of the persist *)
(* step.  SpecBot: one cleaning_data call on a raw log.  SpecNormalize:    *)
(* one cleaning_data call on a one-record log, for each ip string.         *)
(* SpecPipeline: preprocess runs of one date on SECEdgar instances.        *)
(* SpecCountry: the country normalisation of date after date.              *)
(* SpecStorage: the same, step by step, over a mapping file that another   *)
(* writer may replace.  SpecWithdrawn: SpecPipeline with an upstream that  *)
(* may stop listing the date.  SpecResume: SpecPipeline with artifacts     *)
(* that are deleted and a log that is replaced between runs.  SpecLookup:  *)
(* one external lookup, attempt by attempt.  SpecPool: the process pool of *)
(* one resolve round.                                                      *)
(***************************************************************************)
EXTENDS Integers, Sequences, FiniteSets, TLC

\* ------------------------------------------------------------------ bounds

\* Number of distinct /24 blocks (cleaned IPs) the model draws from.
MaxIp == 3

\* Number of get_ip_from_ip2location calls in one behaviour.
MaxCalls == 2

\* Number of further groups of records added to the main group of a log.
MaxExtraLoads == 1

\* Number of preprocess calls in one behaviour.
MaxRuns == 2

\* Number of IPs that need a lookup in one round.
MaxTasks == 18

\* ------------------------------------------------------- program constants

\* no_of_requests_per_minute > 25
RequestsPerMinuteLimit == 25

\* no_of_unique_ciks > 3
UniqueCiksLimit == 3

\* no_of_requests_per_day > 500
RequestsPerDayLimit == 500

\* --------------------------------------------------------- nullable values

Null == <<>>

Some(v) == <<v>>

IsNull(x) == x = Null

SeqToSet(s) == {s[i] : i \in 1..Len(s)}

\* ------------------------------------------------------------ IP addresses

\* A string of the log's ip column is the sequence of its dot-separated
\* segments, each the sequence of its characters: "10.0.1.55" is
\* << <<"1","0">>, <<"0">>, <<"1">>, <<"5","5">> >>.
DigitChars == <<"0", "1", "2", "3", "4", "5", "6", "7", "8", "9">>

IsDigit(c) == \E d \in 1..10 : DigitChars[d] = c

DigitValue(c) == (CHOOSE d \in 1..10 : DigitChars[d] = c) - 1

\* str(n): the decimal numeral of n, without leading zeros.
RECURSIVE Numeral(_)
Numeral(n) ==
    IF n < 10 THEN <<DigitChars[n + 1]>>
    ELSE Numeral(n \div 10) \o <<DigitChars[(n % 10) + 1]>>

\* int(s) of a string of digits.
RECURSIVE DecimalValue(_)
DecimalValue(seg) ==
    IF seg = <<>> THEN 0
    ELSE DecimalValue(SubSeq(seg, 1, Len(seg) - 1)) * 10 + DigitValue(seg[Len(seg)])

\* The string "a.b.c.d" of four numbers.
Dotted(a, b, c, d) == <<Numeral(a), Numeral(b), Numeral(c), Numeral(d)>>

\* ipaddress.IPv4Address accepts four octets of one to three decimal digits,
\* without a leading zero and at most 255; anything else raises.
IsOctet(seg) ==
    /\ Len(seg) \in 1..3
    /\ \A i \in 1..Len(seg) : IsDigit(seg[i])
    /\ (Len(seg) > 1 => seg[1] # "0")
    /\ DecimalValue(seg) <= 255

IPv4AddressValid(ip) == Len(ip) = 4 /\ \A i \in 1..4 : IsOctet(ip[i])

\* int(ipaddress.IPv4Address(ip)): the big-endian 32-bit value of a.b.c.d,
\* written as the pair <<hi, lo>> of its 16-bit halves (the value is
\* hi * 2^16 + lo, which for a >= 128 is beyond the integers of TLC).
IPv4AddressInt(ip) ==
    <<DecimalValue(ip[1]) * 256 + DecimalValue(ip[2]),
      DecimalValue(ip[3]) * 256 + DecimalValue(ip[4])>>

\* The cleaned IPs of the model: 10.0.k.0, the last octet zeroed.
CleanedIp(k) == Dotted(10, 0, k, 0)

CleanedIps == {CleanedIp(k) : k \in 1..MaxIp}

\* One row of ip_df: a (cleaned_ip, cleaned_ip_int) pair as cleaning_data
\* derives it; both are null for a raw ip that does not match the pattern.
IpRow(ip) == [cleaned_ip |-> Some(ip), cleaned_ip_int |-> Some(IPv4AddressInt(ip))]

NullIpRow == [cleaned_ip |-> Null, cleaned_ip_int |-> Null]

IpRows == {IpRow(ip) : ip \in CleanedIps} \cup {NullIpRow}

\* ---------------------------------------------------------------- GeoRecord

\* A GeoRecord row.  geolocation_db_attempted is Null in a file that has no
\* such column.
GeoRow(ipInt, cc, name, att) ==
    [ip_from |-> ipInt, ip_to |-> ipInt, country_code |-> cc,
     country_name |-> name, geolocation_db_attempted |-> att]

\* The answers of the geolocation API to one lookup task: a 200 response
\* with a body, five failed attempts, or an exception escaping the task.
ApiBodies ==
    { [country_code |-> "US", country_name |-> "USA"],
      [country_code |-> "Not found", country_name |-> "Not found"] }

Outcomes ==
    { [kind |-> "ok", body |-> b] : b \in ApiBodies }
    \cup { [kind |-> "fail", body |-> Null], [kind |-> "raise", body |-> Null] }

\* data.get(k) if data.get(k) != 'Not found' else None
NotFoundToNull(v) == IF v = "Not found" THEN Null ELSE Some(v)

\* get_ip_location_from_geolocation_db after a 200 response: the parsed dict.
ParseResponse(ip, body) ==
    [ip_from |-> IPv4AddressInt(ip), ip_to |-> IPv4AddressInt(ip),
     country_code |-> NotFoundToNull(body.country_code),
     country_name |-> NotFoundToNull(body.country_name)]

\* get_ip_location_from_geolocation_db: the dict, or Null (None) when all
\* attempts failed.
GetIpLocation(ip, outcome) ==
    IF outcome.kind = "ok" THEN Some(ParseResponse(ip, outcome.body)) ELSE Null

\* process_single_ip: `... or {}` turns None into the empty dict, modelled as
\* the dict all of whose .get() are None.
EmptyDict == [country_code |-> Null, country_name |-> Null]

ProcessSingleIp(ip, outcome) ==
    IF IsNull(GetIpLocation(ip, outcome)) THEN EmptyDict
    ELSE GetIpLocation(ip, outcome)[1]

\* The row the as_completed loop appends for a task that returned `result`.
ResultRow(ip, result) ==
    GeoRow(Some(IPv4AddressInt(ip)), result.country_code, result.country_name,
           Some(TRUE))

\* -------------------------------------------------------------------- files

AbsentFile == [state |-> "absent", rows |-> <<>>, hasAtt |-> FALSE]

PartialFile == [state |-> "partial", rows |-> <<>>, hasAtt |-> FALSE]

CompleteFile(rows, hasAtt) == [state |-> "complete", rows |-> rows, hasAtt |-> hasAtt]

\* The bulk reference table (ip2_location.parquet) of the model; ip_from is
\* a key of the reference table.  10.0.1.0 has a row without a country,
\* 10.0.2.0 has no row, and every block from 10.0.3.0 up has a row with a
\* country.
BulkRow(k) ==
    CASE k = 1 -> <<GeoRow(Some(IPv4AddressInt(CleanedIp(k))), Null, Null, Null)>>
      [] k = 2 -> <<>>
      [] OTHER -> <<GeoRow(Some(IPv4AddressInt(CleanedIp(k))), Some("DE"),
                          Some("Germany"), Null)>>

RECURSIVE BulkTableUpTo(_)
BulkTableUpTo(k) == IF k = 0 THEN <<>> ELSE BulkTableUpTo(k - 1) \o BulkRow(k)

BulkTable == BulkTableUpTo(MaxIp)

\* ------------------------------------------------------------- log records

\* A table of log records is a bag: a function from the distinct records to
\* the number of times each occurs.
EmptyBag == <<>>

BagAdd(B1, B2) ==
    [r \in (DOMAIN B1) \cup (DOMAIN B2) |->
        (IF r \in DOMAIN B1 THEN B1[r] ELSE 0) + (IF r \in DOMAIN B2 THEN B2[r] ELSE 0)]

\* The number of rows of bag B that are in the set S of its records.
RECURSIVE CountRows(_, _)
CountRows(B, S) ==
    IF S = {} THEN 0
    ELSE LET r == CHOOSE x \in S : TRUE
         IN B[r] + CountRows(B, S \ {r})

\* The records of bag B in the set S.
BagRestrict(B, S) == [r \in (DOMAIN B) \cap S |-> B[r]]

\* An AccessLogRecord.  time is the parsed HH:MM:SS.
LogRecord(ip, date, time, cik, code, idx, crawler) ==
    [ip |-> ip, date |-> date, time |-> time, cik |-> cik, accession |-> "acc",
     code |-> code, idx |-> idx, crawler |-> crawler]

\* The raw ip strings of the model: two well-formed addresses (the log
\* obfuscates the last octet), one whose first group is above 255 and one
\* that is no dotted quad.
IpA == <<Numeral(10), Numeral(0), Numeral(1), Numeral(55)>>

IpB == <<Numeral(10), Numeral(0), Numeral(2), <<"j", "f", "d">>>>

IpC == <<Numeral(999), Numeral(0), Numeral(1), Numeral(7)>>

IpD == <<<<"l", "o", "c", "a", "l">>>>

\* A group of records of one ip: n records for every cik of ciks in each of
\* k consecutive minutes starting at 00:m0, at second s of the minute.
Load(ip, date, m0, k, s, ciks, n, code, idx, crawler) ==
    [ip |-> ip, date |-> date, m0 |-> m0, k |-> k, s |-> s, ciks |-> ciks,
     n |-> n, code |-> code, idx |-> idx, crawler |-> crawler]

LoadBag(l) ==
    [r \in {LogRecord(l.ip, l.date, <<0, l.m0 + j, l.s>>, c, l.code, l.idx, l.crawler) :
                j \in 0..(l.k - 1), c \in l.ciks} |-> l.n]

RECURSIVE LoadsBag(_)
LoadsBag(ls) ==
    IF ls = {} THEN EmptyBag
    ELSE LET l == CHOOSE x \in ls : TRUE
         IN BagAdd(LoadBag(l), LoadsBag(ls \ {l}))

\* The main group of a log: a burst of IpA inside one minute, or the same
\* number of requests in each of 20 or 21 minutes.
MainLoads ==
    {Load(IpA, "d1", 0, 1, s, ciks, n, 200, 0, 0) :
        s \in {0, 59}, ciks \in {{1}, {1, 2, 3}, {1, 2, 3, 4}}, n \in {1, 13, 25, 26, 30}}
    \cup {Load(IpA, "d1", 0, k, 0, {1}, n, 200, 0, 0) : k \in {20, 21}, n \in {24, 25}}

\* The further groups: more requests of IpA in the same or the next minute
\* or on another day, requests that do not qualify, and other ips.
ExtraLoads ==
    {Load(IpA, "d1", m0, 1, s, ciks, n, 200, 0, 0) :
        m0 \in {0, 1}, s \in {0, 59}, ciks \in {{1}, {4}}, n \in {1, 13}}
    \cup {Load(IpA, "d2", 0, 1, 0, {4}, 13, 200, 0, 0),
          Load(IpA, "d1", 0, 1, 0, {4}, 13, 404, 0, 0),
          Load(IpA, "d1", 0, 1, 0, {4}, 13, 200, 1, 0),
          Load(IpA, "d1", 0, 1, 0, {4}, 13, 200, 0, 1),
          Load(IpA, "d1", 30, 1, 0, {1}, 1, 200, 0, 0),
          Load(IpB, "d1", 0, 1, 0, {1}, 1, 200, 0, 0),
          Load(IpB, "d1", 0, 1, 0, {1}, 26, 200, 0, 0),
          Load(IpB, "d1", 0, 1, 0, {1, 2, 3, 4}, 1, 200, 0, 0),
          Load(IpC, "d1", 0, 1, 0, {1}, 1, 200, 0, 0),
          Load(IpC, "d1", 0, 1, 0, {1}, 26, 200, 0, 0),
          Load(IpD, "d1", 0, 1, 0, {1}, 1, 200, 0, 0)}

\* The subsets of S of at most k elements.
RECURSIVE SubsetsUpTo(_, _)
SubsetsUpTo(S, k) ==
    IF k = 0 THEN {{}}
    ELSE SubsetsUpTo(S, k - 1) \cup {t \cup {x} : t \in SubsetsUpTo(S, k - 1), x \in S}

\* The logs of the model.
RawLogs ==
    {BagAdd(LoadBag(m), LoadsBag(e)) :
        m \in MainLoads, e \in SubsetsUpTo(ExtraLoads, MaxExtraLoads)}

\* The segments the ip strings of the normaliser are built from: digit
\* groups up to and above 255, with a leading zero, of four digits, a token
\* of letters, the empty token and a token with a blank.
IpSegments ==
    { <<"0">>, <<"7">>, <<"1", "0">>, <<"2", "5", "5">>, <<"2", "5", "6">>,
      <<"9", "9", "9">>, <<"0", "1", "0">>, <<"1", "0", "0", "0">>,
      <<"j", "f", "d">>, <<>>, <<"5", " ">> }

\* The address of the example 192.168.1.55.
IpF == <<Numeral(192), Numeral(168), Numeral(1), Numeral(55)>>

\* The raw ip strings of the normaliser: every string of four segments, and
\* strings of one, three and five segments.
IpStrings ==
    {<<a, b, c, d>> : a \in IpSegments, b \in IpSegments, c \in IpSegments,
                      d \in IpSegments}
    \cup {<<Numeral(10)>>, <<Numeral(10), Numeral(0), Numeral(1)>>,
          <<Numeral(10), Numeral(0), Numeral(1), Numeral(5), Numeral(6)>>}
    \cup {IpA, IpB, IpC, IpD, IpF}

\* The logs of one record, one for each ip string.
OneRecordLogs == {LoadBag(Load(ip, "d1", 0, 1, 0, {1}, 1, 200, 0, 0)) : ip \in IpStrings}

\* ------------------------------------------------- SECEdgar.cleaning_data

\* Lines 227-230: the records that qualify.
Qualifies(r) == r.code = 200 /\ r.idx = 0 /\ r.crawler = 0

\* Lines 231-234: the datetime column, date and time combined.
WithDatetime(r) ==
    [ip |-> r.ip, date |-> r.date, time |-> r.time, cik |-> r.cik,
     accession |-> r.accession, code |-> r.code, idx |-> r.idx,
     crawler |-> r.crawler, datetime |-> <<r.date, r.time[1], r.time[2], r.time[3]>>]

\* The columns of the raw log of a row of df.
RawColumns(d) ==
    [ip |-> d.ip, date |-> d.date, time |-> d.time, cik |-> d.cik,
     accession |-> d.accession, code |-> d.code, idx |-> d.idx, crawler |-> d.crawler]

\* Lines 227-234: df.
QualifyingFrame(rawLog) ==
    [d \in {WithDatetime(r) : r \in {x \in DOMAIN rawLog : Qualifies(x)}} |->
        rawLog[RawColumns(d)]]

\* pl.col('datetime').dt.truncate('1m')
TruncateMinuteMut(dt) == dt

TruncateMinute(dt) == <<dt[1], dt[2], dt[3], 0>>

\* The keys of group_by(datetime.dt.truncate('1m'), 'ip').
MinuteGroups(df) == {<<TruncateMinute(r.datetime), r.ip>> : r \in DOMAIN df}

InMinuteGroup(df, g) ==
    {r \in DOMAIN df : TruncateMinute(r.datetime) = g[1] /\ r.ip = g[2]}

\* Lines 247-257: rpv_cond1_ips.
RpvCond1(df) ==
    {g[2] : g \in {x \in MinuteGroups(df) :
        CountRows(df, InMinuteGroup(df, x)) > RequestsPerMinuteLimit}}

\* Lines 259-269: rpv_cond2_ips.
RpvCond2Mut(df) ==
    {g[2] : g \in {x \in MinuteGroups(df) :
        CountRows(df, InMinuteGroup(df, x)) > UniqueCiksLimit}}

RpvCond2(df) ==
    {g[2] : g \in {x \in MinuteGroups(df) :
        Cardinality({r.cik : r \in InMinuteGroup(df, x)}) > UniqueCiksLimit}}

\* Lines 271-278: rpv_cond3_ips.
RpvCond3Mut(df) ==
    {ip \in {r.ip : r \in DOMAIN df} :
        \E g \in MinuteGroups(df) :
            /\ g[2] = ip
            /\ CountRows(df, InMinuteGroup(df, g)) > RequestsPerDayLimit}

RpvCond3(df) ==
    {ip \in {r.ip : r \in DOMAIN df} :
        CountRows(df, {r \in DOMAIN df : r.ip = ip}) > RequestsPerDayLimit}

\* Lines 281-285: bot_ips.
BotIpsMut(df) == RpvCond1(df) \cup RpvCond2(df)

BotIps(df) == RpvCond1(df) \cup RpvCond2(df) \cup RpvCond3(df)

\* Line 288: df.join(bot_ips, on='ip', how='anti').
FilteredFrameMut(df) ==
    LET bots == RpvCond3(df)
    IN BagRestrict(df, {r \in DOMAIN df :
           /\ r.ip \notin bots
           /\ CountRows(df, InMinuteGroup(df, <<TruncateMinute(r.datetime), r.ip>>))
                  <= RequestsPerMinuteLimit
           /\ Cardinality({x.cik : x \in InMinuteGroup(df, <<TruncateMinute(r.datetime), r.ip>>)})
                  <= UniqueCiksLimit})

FilteredFrame(df) ==
    LET bots == BotIps(df)
    IN BagRestrict(df, {r \in DOMAIN df : r.ip \notin bots})

\* ipv4_pattern: ^(\d{1,3})\.(\d{1,3})\.(\d{1,3})\.[^.\s]+$
IsDigitGroup(seg) == Len(seg) \in 1..3 /\ \A i \in 1..Len(seg) : IsDigit(seg[i])

IsLastToken(seg) == Len(seg) >= 1 /\ \A i \in 1..Len(seg) : seg[i] \notin {" ", "\t", "\n"}

MatchesIpv4Pattern(ip) ==
    /\ Len(ip) = 4
    /\ \A i \in 1..3 : IsDigitGroup(ip[i])
    /\ IsLastToken(ip[4])

\* Lines 292-302: cleaned_ip.
CleanedIpOfMut(ip) ==
    IF MatchesIpv4Pattern(ip)
    THEN Some(<<ip[1], ip[2], ip[3], IF IsDigitGroup(ip[4]) THEN ip[4] ELSE <<"0">>>>)
    ELSE Null

CleanedIpOf(ip) ==
    IF MatchesIpv4Pattern(ip) THEN Some(<<ip[1], ip[2], ip[3], <<"0">>>>) ELSE Null

\* Lines 303-307: int(IPv4Address(x)) if x else None, where it does not raise.
CleanedIpIntOf(cleaned) ==
    IF IsNull(cleaned) THEN Null ELSE Some(IPv4AddressInt(cleaned[1]))

CleanedRecord(r) ==
    [ip |-> r.ip, date |-> r.date, time |-> r.time, cik |-> r.cik,
     accession |-> r.accession, code |-> r.code, idx |-> r.idx,
     crawler |-> r.crawler, datetime |-> r.datetime,
     cleaned_ip |-> CleanedIpOf(r.ip),
     cleaned_ip_int |-> CleanedIpIntOf(CleanedIpOf(r.ip))]

\* IPv4Address raises for a record that the filter kept.
CleaningRaises(rawLog) ==
    \E r \in DOMAIN FilteredFrame(QualifyingFrame(rawLog)) :
        /\ ~IsNull(CleanedIpOf(r.ip))
        /\ ~IPv4AddressValid(CleanedIpOf(r.ip)[1])

\* The columns of df of a row of cleaned_df.
FrameColumns(c) ==
    [ip |-> c.ip, date |-> c.date, time |-> c.time, cik |-> c.cik,
     accession |-> c.accession, code |-> c.code, idx |-> c.idx,
     crawler |-> c.crawler, datetime |-> c.datetime]

\* Lines 292-307: cleaned_df.
CleanedFrame(rawLog) ==
    LET f == FilteredFrame(QualifyingFrame(rawLog))
    IN [c \in {CleanedRecord(r) : r \in DOMAIN f} |-> f[FrameColumns(c)]]

\* --------------------------------------------------- SECEdgar.__extract_ip

\* Lines 330-337: the distinct (cleaned_ip, cleaned_ip_int) pairs of the
\* cleaned log.
RawIps(clean) ==
    {[cleaned_ip |-> r.cleaned_ip, cleaned_ip_int |-> r.cleaned_ip_int] :
        r \in DOMAIN clean}

\* The sum of the counts of a set of <<row, source, count>> contributions.
RECURSIVE SumCounts(_)
SumCounts(C) ==
    IF C = {} THEN 0
    ELSE LET c == CHOOSE x \in C : TRUE
         IN c[3] + SumCounts(C \ {c})

\* The bag of the rows of a set of <<row, source, count>> contributions.
BagOf(C) == [o \in {c[1] : c \in C} |-> SumCounts({c \in C : c[1] = o})]

\* The rows of the geolocation frame that the left join on
\* cleaned_ip_int = ip_from matches with record r; a null key matches none.
GeoMatches(r, frame) ==
    {i \in 1..Len(frame) :
        /\ ~IsNull(r.cleaned_ip_int)
        /\ frame[i].ip_from = r.cleaned_ip_int}

\* The geolocation columns of a record without a match.
NoGeoRow == GeoRow(Null, Null, Null, Null)

\* One row of the joined frame: the record and the columns of the
\* geolocation row other than the join key.
EnrichedRecord(r, g) ==
    [ip |-> r.ip, date |-> r.date, time |-> r.time, cik |-> r.cik,
     accession |-> r.accession, code |-> r.code, idx |-> r.idx,
     crawler |-> r.crawler, datetime |-> r.datetime,
     cleaned_ip |-> r.cleaned_ip, cleaned_ip_int |-> r.cleaned_ip_int,
     ip_to |-> g.ip_to, country_code |-> g.country_code,
     country_name |-> g.country_name,
     geolocation_db_attempted |-> g.geolocation_db_attempted]

\* Lines 343-349, mutated: an inner join, which drops a record without a
\* matching row.
EnrichedRowsMut(r, n, frame) ==
    {<<EnrichedRecord(r, frame[i]), <<r, i>>, n>> : i \in GeoMatches(r, frame)}

\* The rows that record r contributes to the joined frame.
EnrichedRows(r, n, frame) ==
    IF GeoMatches(r, frame) = {}
    THEN {<<EnrichedRecord(r, NoGeoRow), <<r, 0>>, n>>}
    ELSE {<<EnrichedRecord(r, frame[i]), <<r, i>>, n>> : i \in GeoMatches(r, frame)}

\* Lines 343-351: df.join(ip_with_country_code_df, how="left").
EnrichedFrame(clean, frame) ==
    BagOf(UNION {EnrichedRows(r, clean[r], frame) : r \in DOMAIN clean})

\* ------------------------------------------ SECEdgar.__clean_country_names

\* One row of the country mapping table; both columns are nullable strings.
MappingRow(rawName, cleanedName) ==
    [raw_country_name |-> rawName, cleaned_country_name |-> cleanedName]

\* The rows of the mapping that a join on country_name = raw_country_name
\* matches with the (nullable) name; a null key matches none.
MappingMatches(name, map) ==
    {i \in 1..Len(map) : ~IsNull(name) /\ map[i].raw_country_name = name}

\* Lines 480-488: the distinct country_name values of the input that the
\* anti join against the mapping keeps.
UnmappedCountries(df, map) ==
    {name \in {r.country_name : r \in DOMAIN df} : MappingMatches(name, map) = {}}

\* The raw country names the converter recognises.
KnownCountries == {"USA", "Germany"}

\* The standard name cc.convert(name, to='name') gives for a known name.
StandardName(name) ==
    CASE name = "USA" -> "United States"
      [] name = "Germany" -> "Germany"

\* The fill value cc.convert returns for a name it does not recognise (the
\* default of its not_found parameter, which line 494 leaves alone).
NotFoundFill == "not found"

\* How cc.convert ends for a name it does not recognise: it returns the
\* fill value, or it raises.
ConverterEnds == {"returns", "raises"}

\* Lines 492-497, convert_country: the converter's result, and the name
\* itself when the converter raises.
ConvertCountry(name, ends) ==
    IF name \in KnownCountries THEN StandardName(name)
    ELSE IF ends = "raises" THEN name
    ELSE NotFoundFill

\* Lines 499-502: map_elements skips a null, which stays null.
NewMapping(name, ends) ==
    MappingRow(name, IF IsNull(name) THEN Null
                     ELSE Some(ConvertCountry(name[1], ends)))

\* The names map_elements passes to convert_country: the non-null ones.
PassedToConverter(df, map) ==
    {name[1] : name \in {n \in UnmappedCountries(df, map) : ~IsNull(n)}}

\* The columns of the mapping table.
MappingColumns == {"raw_country_name", "cleaned_country_name"}

\* country_mapping.parquet with the given rows and columns.
MappingFile(rows, columns) ==
    [state |-> "complete", rows |-> rows, hasAtt |-> FALSE, columns |-> columns]

\* Lines 471-477: the rows of the mapping file, none when there is no file.
LoadedMapping(file) == IF file.state = "complete" THEN file.rows ELSE <<>>

\* Lines 480-506: the anti join names raw_country_name and the vertical
\* concat needs both columns, so collect() raises on any other file.
MappingUnreadable(file) ==
    file.state = "complete" /\ ~(MappingColumns \subseteq file.columns)

\* Lines 505-510, mutated: only the new mappings are written.
UpdatedMappingMut(new, map) == new

\* Lines 505-510: pl.concat([new_mappings, country_mapping_df]).
UpdatedMapping(new, map) == new \o map

\* Line 515, mutated: the verification accepts every file.
MissingColumnsMut(file) == FALSE

\* Line 515: a required column is not in the schema of the written file.
MissingColumns(file) == ~(MappingColumns \subseteq file.columns)

\* The sequences that list every element of S once: unique() returns the
\* distinct rows in no particular order.
Orderings(S) ==
    {q \in [1..Cardinality(S) -> S] : \A i, j \in 1..Cardinality(S) : q[i] = q[j] => i = j}

\* Lines 528-534, mutated: the name of the record is never replaced.
NormalizedRecordMut(r, m) == r

\* Lines 528-534: the record with the cleaned name, where there is one.
NormalizedRecord(r, m) ==
    [r EXCEPT !.country_name =
        IF IsNull(m.cleaned_country_name) THEN r.country_name
        ELSE m.cleaned_country_name]

\* The rows that record r contributes to the normalized frame.
NormalizedRows(r, n, map) ==
    IF MappingMatches(r.country_name, map) = {}
    THEN {<<NormalizedRecord(r, MappingRow(Null, Null)), <<r, 0>>, n>>}
    ELSE {<<NormalizedRecord(r, map[i]), <<r, i>>, n>> :
             i \in MappingMatches(r.country_name, map)}

\* Lines 521-536: the left join with the mapping and the substitution.
NormalizedFrame(df, map) ==
    BagOf(UNION {NormalizedRows(r, df[r], map) : r \in DOMAIN df})

\* ------------------------------------------------- the logs of a pipeline

\* A raw ip in the block 10.0.3.0, which the reference table resolves.
IpE == <<Numeral(10), Numeral(0), Numeral(3), <<"a", "b", "c">>>>

PipelineIps == {IpA, IpB, IpC, IpD, IpE}

\* A log with one record for each ip of a set, and for one of the sets a
\* burst of 26 further requests of IpB in a minute.
PipelineLogs ==
    {LoadsBag({Load(ip, "d1", 0, 1, 0, {1}, 1, 200, 0, 0) : ip \in ips}) :
        ips \in (SUBSET PipelineIps) \ {{}}}
    \cup {LoadsBag({Load(IpA, "d1", 0, 1, 0, {1}, 1, 200, 0, 0),
                    Load(IpB, "d1", 0, 1, 0, {1}, 26, 200, 0, 0)})}

VARIABLES
    bulk,        \* ip2_location.parquet: the rows of the bulk reference table
    canon,       \* combined_ip_locations.parquet
    tmp,         \* combined_ip_locations.parquet.tmp
    retriever,   \* the IPRetriever instance: the lazy plan of combined_ip_location_df
    pc,          \* position inside get_ip_from_ip2location
    ip_df,       \* the caller's ip_df of the call in progress
    pending,     \* future_to_ip: the submitted lookups not yet completed
    result_dict, \* the rows collected by the as_completed loop
    merged,      \* the collected frame being persisted
    returned,    \* what the last call returned: "none", "self" or "canonical"
    ncalls,      \* calls made so far
    call,        \* history: for the call in progress, ip -> outcome of its task
    hist,        \* history: what persisted calls submitted and how it ended
    raw,         \* converted/log<date>.parquet: the raw log, a file of records
    no_bots,     \* no_bots/log<date>.parquet: the cleaned, filtered log
    rpv,         \* rpv_cond1_ips, rpv_cond2_ips, rpv_cond3_ips of the last cleaning
    cleaning,    \* how the last cleaning_data call ended
    filtered_df, \* filtered_df of the last cleaning_data call
    upstream,    \* the SEC site: whether the date has a link, and the log behind it
    api,         \* the answers the geolocation API has given, by IP
    zip_file,    \* downloads/log<date>.zip
    csv_file,    \* extracted/log<date>.csv
    enriched,    \* no_bots/ip_enriched/log<date>.parquet
    output,      \* output/log<date>.parquet
    mapping,     \* country_mapping.parquet
    ppc,         \* position inside preprocess
    force,       \* self.force of the run in progress
    ran,         \* history: the stages executed in the current run
    existed,     \* history: the stages whose output existed when reached
    status,      \* how the last preprocess ended
    nruns,       \* preprocess calls made so far
    snap,        \* history: the persisted tables when the run started
    converted,   \* history: <<run, name>> for every name passed to convert_country
    lpc,         \* position inside get_ip_location_from_geolocation_db
    attempt,     \* the loop variable of its for loop
    events,      \* history: what the lookup did, in order
    response,    \* its variable response
    lookup_result, \* what it returned
    ntasks,      \* len(unique_ips) of the round whose pool is open
    queued,      \* submitted tasks no worker process has taken yet
    workers      \* tasks a worker process is running

geoVars == <<bulk, canon, tmp, retriever, pc, ip_df, pending, result_dict,
             merged, returned, ncalls, call, hist>>

botVars == <<raw, no_bots, rpv, cleaning, filtered_df>>

worldVars == <<upstream, api>>

artifactVars == <<zip_file, csv_file, enriched, output, mapping>>

runVars == <<ppc, force, ran, existed, status, nruns, snap>>

lookupVars == <<lpc, attempt, events, response, lookup_result>>

poolVars == <<ntasks, queued, workers>>

taskVars == <<lookupVars, poolVars>>

pipeVars == <<worldVars, artifactVars, runVars, converted, taskVars>>

vars == <<geoVars, botVars, pipeVars>>

\* ------------------------------------------------------------- IPRetriever

\* with_columns(pl.lit(False).alias('geolocation_db_attempted'))
WithAttemptedFalse(rows) ==
    [i \in 1..Len(rows) |-> [rows[i] EXCEPT !.geolocation_db_attempted = Some(FALSE)]]

\* self.combined_ip_location_df is a LazyFrame: a plan that is evaluated,
\* and reads its file, at every collect().
CombinedFrame(plan) ==
    CASE plan = "scan_ip2" -> WithAttemptedFalse(bulk)
      [] plan = "scan_combined" -> canon.rows
      [] plan = "scan_combined_lit" -> WithAttemptedFalse(canon.rows)

\* ip_df.join(combined, left_on=cleaned_ip_int, right_on=ip_from, how=left):
\* the joined rows of one ip_df row; a null key matches nothing.
JoinedRows(row, frame) ==
    LET m == {i \in 1..Len(frame) :
                 /\ ~IsNull(row.cleaned_ip_int)
                 /\ frame[i].ip_from = row.cleaned_ip_int}
    IN IF m = {}
       THEN {[cleaned_ip |-> row.cleaned_ip, country_code |-> Null,
              geolocation_db_attempted |-> Null]}
       ELSE {[cleaned_ip |-> row.cleaned_ip,
              country_code |-> frame[i].country_code,
              geolocation_db_attempted |-> frame[i].geolocation_db_attempted] : i \in m}

\* The filter of lines 141-148, mutated: attempted rows are not excluded.
MissingCountryCodeMut(j) ==
    /\ IsNull(j.country_code)
    /\ ~IsNull(j.cleaned_ip)

\* The filter of lines 141-148 on one joined row.
MissingCountryCode(j) ==
    /\ \/ j.geolocation_db_attempted = Some(FALSE)
       \/ IsNull(j.geolocation_db_attempted)
    /\ IsNull(j.country_code)
    /\ ~IsNull(j.cleaned_ip)

\* ip_with_missing_country_code_list, deduplicated: the IPs to look up.
NeedsLookup(df, frame) ==
    {j.cleaned_ip[1] : j \in {x \in UNION {JoinedRows(r, frame) : r \in df} :
                                 MissingCountryCode(x)}}

\* The filter of line 205: the rows of the table that are kept.
KeepRowMut(r) == TRUE

KeepRow(r) ==
    \/ ~IsNull(r.country_code)
    \/ r.geolocation_db_attempted = Some(TRUE)

\* Lines 204-210, mutated: the result of the task that ended first is lost.
MergeTablesMut(frame, results) ==
    SelectSeq(frame, KeepRow) \o (IF results = <<>> THEN <<>> ELSE Tail(results))

\* Lines 204-210: the kept rows followed by the new results.
MergeTables(frame, results) == SelectSeq(frame, KeepRow) \o results

\* The files and the variables of IPRetriever before any instance exists.
GeoInit ==
    /\ bulk = BulkTable
    /\ canon \in {AbsentFile, CompleteFile(bulk, FALSE)}
    /\ tmp = AbsentFile
    /\ retriever = "none"
    /\ pc = "idle"
    /\ ip_df = {}
    /\ pending = {}
    /\ result_dict = <<>>
    /\ merged = <<>>
    /\ returned = "none"
    /\ ncalls = 0
    /\ call = {}
    /\ hist = [submitted |-> {}, ok |-> {}, failed |-> {}]

\* IPRetriever.__init__ (a new SECEdgar, or the next process).
NewRetriever ==
    /\ pc = "idle"
    /\ canon.state # "partial"
    /\ retriever' = IF canon.state = "absent" THEN "scan_ip2"
                    ELSE IF canon.hasAtt THEN "scan_combined"
                    ELSE "scan_combined_lit"
    /\ returned' = "none"
    /\ UNCHANGED <<bulk, canon, tmp, pc, ip_df, pending, result_dict, merged,
                   ncalls, call, hist>>

\* IPRetriever.__init__ on a canonical file that exists but is truncated:
\* collect_schema() raises and no instance is built.
NewRetrieverRaises ==
    /\ pc = "idle"
    /\ canon.state = "partial"
    /\ retriever' = "none"
    /\ returned' = "raised"
    /\ UNCHANGED <<bulk, canon, tmp, pc, ip_df, pending, result_dict, merged,
                   ncalls, call, hist>>

\* get_ip_from_ip2location(df), lines 131-156, when nothing needs a lookup.
GetIpNothingMissing(df) ==
    /\ pc = "idle" /\ retriever # "none"
    /\ NeedsLookup(df, CombinedFrame(retriever)) = {}
    /\ returned' = "self"
    /\ ncalls' = ncalls + 1
    /\ UNCHANGED <<bulk, canon, tmp, retriever, pc, ip_df, pending, result_dict,
                   merged, call, hist>>

\* get_ip_from_ip2location(df), lines 131-173: the lookups are submitted.
GetIpSubmit(df) ==
    /\ pc = "idle" /\ retriever # "none"
    /\ NeedsLookup(df, CombinedFrame(retriever)) # {}
    /\ ip_df' = df
    /\ pending' = NeedsLookup(df, CombinedFrame(retriever))
    /\ result_dict' = <<>>
    /\ call' = {}
    /\ pc' = "lookup"
    /\ returned' = "none"
    /\ ncalls' = ncalls + 1
    /\ UNCHANGED <<bulk, canon, tmp, retriever, merged, hist>>

\* One iteration of the as_completed loop, lines 175-198, for the task of ip
\* that ended with `outcome`.
Complete(ip, outcome) ==
    /\ pc = "lookup"
    /\ ip \in pending
    /\ pending' = pending \ {ip}
    /\ result_dict' =
         IF outcome.kind = "raise" THEN result_dict
         ELSE Append(result_dict, ResultRow(ip, ProcessSingleIp(ip, outcome)))
    /\ call' = call \cup {[ip |-> ip, outcome |-> outcome]}
    /\ UNCHANGED <<bulk, canon, tmp, retriever, pc, ip_df, merged, returned,
                   ncalls, hist>>

\* Lines 204-217, mutated: the write does not wait for the lookups.
WriteTmpBeginMut ==
    /\ pc = "lookup"
    /\ merged' = MergeTables(CombinedFrame(retriever), result_dict)
    /\ tmp' = PartialFile
    /\ pc' = "tmp_writing"
    /\ UNCHANGED <<bulk, canon, retriever, ip_df, pending, result_dict, returned,
                   ncalls, call, hist>>

\* Lines 204-217: the merged frame is collected and the write of the
\* temporary file starts (the file is created and truncated).
WriteTmpBegin ==
    /\ pc = "lookup" /\ pending = {}
    /\ merged' = MergeTables(CombinedFrame(retriever), result_dict)
    /\ tmp' = PartialFile
    /\ pc' = "tmp_writing"
    /\ UNCHANGED <<bulk, canon, retriever, ip_df, pending, result_dict, returned,
                   ncalls, call, hist>>

\* Lines 214-217 end: the temporary file is complete.
WriteTmpEnd ==
    /\ pc = "tmp_writing"
    /\ tmp' = CompleteFile(merged, TRUE)
    /\ pc' = "tmp_written"
    /\ UNCHANGED <<bulk, canon, retriever, ip_df, pending, result_dict, merged,
                   returned, ncalls, call, hist>>

\* Lines 218-221: the temporary file is read back and the write of the
\* canonical file starts (write_parquet creates and truncates its target).
OverwriteBegin ==
    /\ pc = "tmp_written"
    /\ merged' = tmp.rows
    /\ canon' = PartialFile
    /\ pc' = "canon_writing"
    /\ UNCHANGED <<bulk, tmp, retriever, ip_df, pending, result_dict, returned,
                   ncalls, call, hist>>

\* History: the IPs of the call in progress whose task ended in one of `kinds`.
OutcomeIps(kinds) == {c.ip : c \in {x \in call : x.outcome.kind \in kinds}}

\* History: the IPs of the call in progress whose lookup returned a country.
OkIps ==
    {c.ip : c \in {x \in call :
        /\ x.outcome.kind = "ok"
        /\ x.outcome.body.country_code # "Not found"}}

\* Lines 218-221 end: the canonical file holds the new table.
OverwriteEnd ==
    /\ pc = "canon_writing"
    /\ canon' = CompleteFile(merged, TRUE)
    /\ pc' = "canon_written"
    /\ hist' = [submitted |-> hist.submitted \cup OutcomeIps({"ok", "fail", "raise"}),
                ok |-> hist.ok \cup OkIps,
                failed |-> hist.failed \cup OutcomeIps({"fail"})]
    /\ UNCHANGED <<bulk, tmp, retriever, ip_df, pending, result_dict, merged,
                   returned, ncalls, call>>

\* Lines 222-224: the temporary file is removed and a scan of the canonical
\* file is returned; self.combined_ip_location_df is left as it was.
RemoveTmpAndReturn ==
    /\ pc = "canon_written"
    /\ tmp' = AbsentFile
    /\ pc' = "idle"
    /\ returned' = "canonical"
    /\ ip_df' = {}
    /\ result_dict' = <<>>
    /\ merged' = <<>>
    /\ call' = {}
    /\ UNCHANGED <<bulk, canon, retriever, pending, ncalls, hist>>

\* The process is interrupted inside the persist step; the instance is gone
\* and the files stay as they are.
Interrupt ==
    /\ pc \in {"tmp_writing", "tmp_written", "canon_writing", "canon_written"}
    /\ pc' = "idle"
    /\ retriever' = "none"
    /\ returned' = "interrupted"
    /\ ip_df' = {}
    /\ result_dict' = <<>>
    /\ merged' = <<>>
    /\ call' = {}
    /\ UNCHANGED <<bulk, canon, tmp, pending, ncalls, hist>>

\* ------------------------------------------------- SECEdgar.cleaning_data

\* No cleaning has run.
BotIdle ==
    /\ raw = AbsentFile
    /\ no_bots = AbsentFile
    /\ rpv = [cond1 |-> {}, cond2 |-> {}, cond3 |-> {}]
    /\ filtered_df = EmptyBag
    /\ cleaning = "none"

\* The three flagged sets of a cleaning of rawLog.
RpvSets(rawLog) ==
    LET df == QualifyingFrame(rawLog)
    IN [cond1 |-> RpvCond1(df), cond2 |-> RpvCond2(df), cond3 |-> RpvCond3(df)]

\* cleaning_data(read_path, write_path), lines 226-311.
CleaningData ==
    /\ ~CleaningRaises(raw.rows)
    /\ no_bots' = CompleteFile(CleanedFrame(raw.rows), FALSE)
    /\ rpv' = RpvSets(raw.rows)
    /\ filtered_df' = FilteredFrame(QualifyingFrame(raw.rows))
    /\ cleaning' = "done"
    /\ UNCHANGED raw

\* cleaning_data when IPv4Address raises inside collect(): nothing is written.
CleaningDataRaises ==
    /\ CleaningRaises(raw.rows)
    /\ rpv' = RpvSets(raw.rows)
    /\ filtered_df' = FilteredFrame(QualifyingFrame(raw.rows))
    /\ cleaning' = "raised"
    /\ UNCHANGED <<raw, no_bots>>

\* ----------------------------------------------------- SECEdgar.preprocess

\* No lookup is in progress and no pool is open.
TaskIdle ==
    /\ lpc = "idle"
    /\ attempt = 0
    /\ events = <<>>
    /\ response = Null
    /\ lookup_result = Null
    /\ ntasks = 0
    /\ queued = 0
    /\ workers = 0

\* No SECEdgar instance has run: no artifact exists.
PipelineIdle ==
    /\ upstream = [listed |-> FALSE, log |-> EmptyBag]
    /\ api = <<>>
    /\ zip_file = AbsentFile
    /\ csv_file = AbsentFile
    /\ enriched = AbsentFile
    /\ output = AbsentFile
    /\ mapping = AbsentFile
    /\ ppc = "idle"
    /\ force = FALSE
    /\ ran = {}
    /\ existed = {}
    /\ status = "none"
    /\ nruns = 0
    /\ snap = Null
    /\ converted = {}
    /\ TaskIdle

\* Lines 390-442, mutated: the force flag is ignored.
GateMut(file) == file.state = "absent"

\* not os.path.exists(path) or self.force
Gate(file) == file.state = "absent" \/ force

\* History: the stage's output artifact existed when the stage was reached.
Existed(stage, file) ==
    existed' = IF file.state = "absent" THEN existed ELSE existed \cup {stage}

\* A table as the bag of its rows, whatever their order.
SeqBag(rows) ==
    [r \in SeqToSet(rows) |-> Cardinality({i \in 1..Len(rows) : rows[i] = r})]

\* History: the final output, the geolocation cache and the country mapping.
Snapshot ==
    [output |-> output,
     cache |-> [state |-> canon.state, rows |-> SeqBag(canon.rows)],
     mapping |-> [state |-> mapping.state, rows |-> SeqBag(mapping.rows)]]

\* SECEdgar.__init__, lines 72-82: the instance builds its IPRetriever.
NewSECEdgar ==
    /\ ppc = "idle"
    /\ NewRetriever
    /\ UNCHANGED <<botVars, pipeVars>>

\* preprocess(date, force=f), lines 355-387.
Preprocess(f) ==
    /\ ppc = "idle" /\ pc = "idle" /\ retriever # "none"
    /\ nruns < MaxRuns
    /\ force' = f
    /\ ppc' = "download"
    /\ ran' = {}
    /\ existed' = {}
    /\ status' = "running"
    /\ nruns' = nruns + 1
    /\ snap' = IF status = "completed" THEN Some(Snapshot) ELSE Null
    /\ UNCHANGED <<geoVars, botVars, worldVars, taskVars, converted, artifactVars>>

\* Lines 389-417: the download, when the date has a link.
Download ==
    /\ ppc = "download"
    /\ Gate(zip_file) => upstream.listed
    /\ IF Gate(zip_file)
       THEN zip_file' = CompleteFile(upstream.log, FALSE) /\ ran' = ran \cup {"download"}
       ELSE UNCHANGED <<zip_file, ran>>
    /\ Existed("download", zip_file)
    /\ ppc' = "extract"
    /\ UNCHANGED <<geoVars, botVars, worldVars, taskVars, converted, csv_file, enriched, output, mapping,
                   force, status, nruns, snap>>

\* Lines 398-400: no log file for the date; the ValueError ends preprocess.
DownloadDateNotFound ==
    /\ ppc = "download"
    /\ Gate(zip_file) /\ ~upstream.listed
    /\ Existed("download", zip_file)
    /\ status' = "raised"
    /\ ppc' = "idle"
    /\ UNCHANGED <<geoVars, botVars, worldVars, taskVars, converted, artifactVars, force, ran, nruns, snap>>

\* Lines 419-426, mutated: the extracted CSV has no record.
ExtractCsvMut ==
    /\ ppc = "extract"
    /\ IF Gate(csv_file)
       THEN csv_file' = CompleteFile(EmptyBag, FALSE) /\ ran' = ran \cup {"extract"}
       ELSE UNCHANGED <<csv_file, ran>>
    /\ Existed("extract", csv_file)
    /\ ppc' = "convert"
    /\ UNCHANGED <<geoVars, botVars, worldVars, taskVars, converted, zip_file, enriched, output, mapping,
                   force, status, nruns, snap>>

\* Lines 419-426: the CSV is extracted from the zip.
ExtractCsv ==
    /\ ppc = "extract"
    /\ IF Gate(csv_file)
       THEN csv_file' = CompleteFile(zip_file.rows, FALSE) /\ ran' = ran \cup {"extract"}
       ELSE UNCHANGED <<csv_file, ran>>
    /\ Existed("extract", csv_file)
    /\ ppc' = "convert"
    /\ UNCHANGED <<geoVars, botVars, worldVars, taskVars, converted, zip_file, enriched, output, mapping,
                   force, status, nruns, snap>>

\* Lines 428-433: the CSV is converted to Parquet.
ConvertToParquet ==
    /\ ppc = "convert"
    /\ IF Gate(raw)
       THEN raw' = CompleteFile(csv_file.rows, FALSE) /\ ran' = ran \cup {"convert"}
       ELSE UNCHANGED <<raw, ran>>
    /\ Existed("convert", raw)
    /\ ppc' = "clean"
    /\ UNCHANGED <<geoVars, no_bots, rpv, cleaning, filtered_df, worldVars, taskVars, converted, artifactVars,
                   force, status, nruns, snap>>

\* Lines 435-440: the clean stage.
CleanStage ==
    /\ ppc = "clean"
    /\ IF Gate(no_bots)
       THEN CleaningData /\ ran' = ran \cup {"clean"}
       ELSE UNCHANGED <<botVars, ran>>
    /\ Existed("clean", no_bots)
    /\ ppc' = "enrich"
    /\ UNCHANGED <<geoVars, worldVars, taskVars, converted, artifactVars, force, status, nruns, snap>>

\* Lines 435-438 when cleaning_data raises: preprocess ends there.
CleanStageRaises ==
    /\ ppc = "clean"
    /\ Gate(no_bots)
    /\ CleaningDataRaises
    /\ ran' = ran \cup {"clean"}
    /\ Existed("clean", no_bots)
    /\ status' = "raised"
    /\ ppc' = "idle"
    /\ UNCHANGED <<geoVars, worldVars, taskVars, converted, artifactVars, force, nruns, snap>>

\* Lines 442-446: the enriched artifact exists and force is not set.
ExtractIpSkipped ==
    /\ ppc = "enrich"
    /\ ~Gate(enriched)
    /\ Existed("enrich", enriched)
    /\ ppc' = "normalize"
    /\ UNCHANGED <<geoVars, botVars, worldVars, taskVars, converted, artifactVars, force, ran, status,
                   nruns, snap>>

\* __extract_ip, lines 326-340: the distinct IPs are handed to
\* get_ip_from_ip2location, which has nothing to look up.
ExtractIpNothingMissing ==
    /\ ppc = "enrich"
    /\ Gate(enriched)
    /\ GetIpNothingMissing(RawIps(no_bots.rows))
    /\ ran' = ran \cup {"enrich"}
    /\ Existed("enrich", enriched)
    /\ ppc' = "join"
    /\ UNCHANGED <<botVars, worldVars, taskVars, converted, artifactVars, force, status, nruns, snap>>

\* __extract_ip, lines 326-340: the distinct IPs are handed to
\* get_ip_from_ip2location, which submits the lookups.
ExtractIpSubmit ==
    /\ ppc = "enrich"
    /\ Gate(enriched)
    /\ GetIpSubmit(RawIps(no_bots.rows))
    /\ ran' = ran \cup {"enrich"}
    /\ Existed("enrich", enriched)
    /\ ppc' = "join"
    /\ UNCHANGED <<botVars, worldVars, taskVars, converted, artifactVars, force, status, nruns, snap>>

\* One lookup task ends; the API gives one answer for an IP, the same in
\* every run.
LookupCompletes ==
    /\ ppc = "join"
    /\ \E ip \in pending, o \in Outcomes :
          /\ ip \in DOMAIN api => o = api[ip]
          /\ Complete(ip, o)
          /\ api' = (ip :> o) @@ api
    /\ UNCHANGED <<botVars, upstream, taskVars, converted, artifactVars, runVars>>

\* __extract_ip, lines 342-351: the join with the returned frame is written.
ExtractIpJoin ==
    /\ ppc = "join" /\ pc = "idle"
    /\ enriched' =
         CompleteFile(EnrichedFrame(no_bots.rows,
                                    IF returned = "self" THEN CombinedFrame(retriever)
                                    ELSE canon.rows), FALSE)
    /\ ppc' = "normalize"
    /\ UNCHANGED <<geoVars, botVars, worldVars, taskVars, converted, zip_file, csv_file, output, mapping,
                   force, ran, existed, status, nruns, snap>>

\* Lines 448-449 and __clean_country_names, lines 467-536.
CleanCountryNames ==
    /\ ppc = "normalize"
    /\ ~MappingUnreadable(mapping)
    /\ \E ends \in ConverterEnds :
       \E new \in Orderings({NewMapping(name, ends) :
                    name \in UnmappedCountries(enriched.rows, LoadedMapping(mapping))}) :
          /\ mapping' = MappingFile(UpdatedMapping(new, LoadedMapping(mapping)),
                                    MappingColumns)
          /\ output' = CompleteFile(NormalizedFrame(enriched.rows, mapping'.rows),
                                    FALSE)
    /\ converted' = converted \cup
          {<<nruns, name>> : name \in PassedToConverter(enriched.rows, LoadedMapping(mapping))}
    /\ ran' = ran \cup {"normalize"}
    /\ Existed("normalize", output)
    /\ status' = "completed"
    /\ ppc' = "idle"
    /\ UNCHANGED <<geoVars, botVars, worldVars, taskVars, zip_file, csv_file, enriched,
                   force, nruns, snap>>

\* ------------------------------------------- specification: IPRetriever

Init == GeoInit /\ BotIdle /\ PipelineIdle

GeoNewRetriever == NewRetriever /\ UNCHANGED <<botVars, pipeVars>>

GeoNewRetrieverRaises == NewRetrieverRaises /\ UNCHANGED <<botVars, pipeVars>>

GeoGetIpNothingMissing ==
    /\ ncalls < MaxCalls
    /\ \E df \in (SUBSET IpRows) \ {{}} : GetIpNothingMissing(df)
    /\ UNCHANGED <<botVars, pipeVars>>

GeoGetIpSubmit ==
    /\ ncalls < MaxCalls
    /\ \E df \in (SUBSET IpRows) \ {{}} : GetIpSubmit(df)
    /\ UNCHANGED <<botVars, pipeVars>>

GeoFutureCompletes ==
    /\ \E ip \in pending, o \in Outcomes : Complete(ip, o)
    /\ UNCHANGED <<botVars, pipeVars>>

GeoWriteTmpBegin == WriteTmpBegin /\ UNCHANGED <<botVars, pipeVars>>

GeoWriteTmpEnd == WriteTmpEnd /\ UNCHANGED <<botVars, pipeVars>>

GeoOverwriteBegin == OverwriteBegin /\ UNCHANGED <<botVars, pipeVars>>

GeoOverwriteEnd == OverwriteEnd /\ UNCHANGED <<botVars, pipeVars>>

GeoRemoveTmpAndReturn == RemoveTmpAndReturn /\ UNCHANGED <<botVars, pipeVars>>

GeoInterrupt == Interrupt /\ UNCHANGED <<botVars, pipeVars>>

Next ==
    \/ GeoNewRetriever
    \/ GeoGetIpNothingMissing
    \/ GeoGetIpSubmit
    \/ GeoFutureCompletes
    \/ GeoWriteTmpBegin
    \/ GeoWriteTmpEnd
    \/ GeoOverwriteBegin
    \/ GeoOverwriteEnd
    \/ GeoRemoveTmpAndReturn

Spec == Init /\ [][Next]_vars

\* The same program, with interruptions of the persist step.
NextInterrupted ==
    \/ Next
    \/ GeoInterrupt
    \/ GeoNewRetrieverRaises

SpecInterrupted == Init /\ [][NextInterrupted]_vars

\* ------------------------------------------ specification: cleaning_data

InitBot ==
    /\ GeoInit /\ canon = AbsentFile
    /\ raw \in {CompleteFile(l, FALSE) : l \in RawLogs}
    /\ no_bots = AbsentFile
    /\ rpv = [cond1 |-> {}, cond2 |-> {}, cond3 |-> {}]
    /\ filtered_df = EmptyBag
    /\ cleaning = "none"
    /\ PipelineIdle

BotCleaningData == cleaning = "none" /\ CleaningData /\ UNCHANGED <<geoVars, pipeVars>>

BotCleaningDataRaises ==
    cleaning = "none" /\ CleaningDataRaises /\ UNCHANGED <<geoVars, pipeVars>>

NextBot ==
    \/ BotCleaningData
    \/ BotCleaningDataRaises

SpecBot == InitBot /\ [][NextBot]_vars

\* ------------------------- specification: cleaning_data, one ip string

InitNormalize ==
    /\ GeoInit /\ canon = AbsentFile
    /\ raw \in {CompleteFile(l, FALSE) : l \in OneRecordLogs}
    /\ no_bots = AbsentFile
    /\ rpv = [cond1 |-> {}, cond2 |-> {}, cond3 |-> {}]
    /\ filtered_df = EmptyBag
    /\ cleaning = "none"
    /\ PipelineIdle

SpecNormalize == InitNormalize /\ [][NextBot]_vars

\* --------------------------------------------- specification: preprocess

InitPipeline ==
    /\ GeoInit
    /\ BotIdle
    /\ upstream \in {[listed |-> TRUE, log |-> l] : l \in PipelineLogs}
                    \cup {[listed |-> FALSE, log |-> EmptyBag]}
    /\ api = <<>>
    /\ zip_file = AbsentFile
    /\ csv_file = AbsentFile
    /\ enriched = AbsentFile
    /\ output = AbsentFile
    /\ mapping = AbsentFile
    /\ ppc = "idle"
    /\ force = FALSE
    /\ ran = {}
    /\ existed = {}
    /\ status = "none"
    /\ nruns = 0
    /\ snap = Null
    /\ converted = {}
    /\ TaskIdle

PipelinePreprocess == \E f \in BOOLEAN : Preprocess(f)

PipelinePersist ==
    /\ ppc = "join"
    /\ \/ WriteTmpBegin
       \/ WriteTmpEnd
       \/ OverwriteBegin
       \/ OverwriteEnd
       \/ RemoveTmpAndReturn
    /\ UNCHANGED <<botVars, pipeVars>>

NextPipeline ==
    \/ NewSECEdgar
    \/ PipelinePreprocess
    \/ Download
    \/ DownloadDateNotFound
    \/ ExtractCsv
    \/ ConvertToParquet
    \/ CleanStage
    \/ CleanStageRaises
    \/ ExtractIpSkipped
    \/ ExtractIpNothingMissing
    \/ ExtractIpSubmit
    \/ LookupCompletes
    \/ PipelinePersist
    \/ ExtractIpJoin
    \/ CleanCountryNames

SpecPipeline == InitPipeline /\ [][NextPipeline]_vars

\* ------------ specification: preprocess, the link of the date may go away

\* Line 396 reads the page of the year when it is called: between two runs
\* the site has withdrawn the link of the date.
LinkWithdrawn ==
    /\ ppc = "idle"
    /\ upstream.listed
    /\ upstream' = [upstream EXCEPT !.listed = FALSE]
    /\ UNCHANGED <<geoVars, botVars, api, artifactVars, runVars, converted, taskVars>>

SpecWithdrawn == InitPipeline /\ [][NextPipeline \/ LinkWithdrawn]_vars

\* ------------- specification: preprocess over artifacts that are removed

\* The stages of preprocess, lines 389-449, in the order of the run.
Stages == <<"download", "extract", "convert", "clean", "enrich", "normalize">>

\* The artifact that a stage writes, as it is on disk.
ArtifactOf(stage) ==
    CASE stage = "download" -> zip_file
      [] stage = "extract" -> csv_file
      [] stage = "convert" -> raw
      [] stage = "clean" -> no_bots
      [] stage = "enrich" -> enriched
      [] stage = "normalize" -> output

\* The artifact of a stage after the file of stage gone is deleted.
Without(stage, gone) == IF stage = gone THEN AbsentFile ELSE ArtifactOf(stage)

\* The gates of lines 390-442 test os.path.exists when they are reached:
\* between two runs a file of the date has been deleted from the disk.
ArtifactRemoved ==
    /\ ppc = "idle" /\ pc = "idle"
    /\ nruns >= 1 /\ nruns < MaxRuns
    /\ \E i \in 1..Len(Stages) :
          /\ ArtifactOf(Stages[i]).state # "absent"
          /\ zip_file' = Without("download", Stages[i])
          /\ csv_file' = Without("extract", Stages[i])
          /\ raw' = Without("convert", Stages[i])
          /\ no_bots' = Without("clean", Stages[i])
          /\ enriched' = Without("enrich", Stages[i])
          /\ output' = Without("normalize", Stages[i])
    /\ UNCHANGED <<geoVars, rpv, cleaning, filtered_df, worldVars, mapping, runVars,
                   converted, taskVars>>

\* The logs that the link of the date may come to serve.
RepublishedLogs ==
    {LoadsBag({Load(ip, "d1", 0, 1, 0, {1}, 1, 200, 0, 0)}) : ip \in {IpA, IpC, IpE}}

\* Line 396 and download_file read the site when they are called: between
\* two runs the log behind the link of the date has been replaced.
LogRepublished ==
    /\ ppc = "idle"
    /\ nruns < MaxRuns
    /\ upstream.listed
    /\ zip_file.state = "complete" /\ zip_file.rows = upstream.log
    /\ \E l \in RepublishedLogs \ {upstream.log} :
          upstream' = [upstream EXCEPT !.log = l]
    /\ UNCHANGED <<geoVars, botVars, api, artifactVars, runVars, converted, taskVars>>

\* The site serves one of these logs for the date, or does not list it.
InitResume ==
    /\ InitPipeline
    /\ upstream.listed => upstream.log \in RepublishedLogs

SpecResume == InitResume /\ [][NextPipeline \/ ArtifactRemoved \/ LogRepublished]_vars

\* ------------------- specification: country normalisation, date by date

\* The country names of the enriched records: two the converter knows, the
\* "-" of an unassigned range, which it does not, and null.
CountryNames == {Some("USA"), Some("Germany"), Some("-"), Null}

\* An enriched record with the given country name.
CountryRecord(name) ==
    EnrichedRecord(
        CleanedRecord(WithDatetime(LogRecord(IpA, "d1", <<0, 0, 0>>, 1, 200, 0, 0))),
        GeoRow(Some(IPv4AddressInt(CleanedIp(1))), name, name, Null))

\* The enriched logs of the dates: a record for each name of a set, two
\* equal records for "USA".
CountryFrames ==
    {[r \in {CountryRecord(name) : name \in names} |->
         IF r.country_name = Some("USA") THEN 2 ELSE 1] :
        names \in (SUBSET CountryNames) \ {{}}}

\* Lines 448-449 and 467-536: the normalisation stage of the run of a new
\* date, whose enriched log is df.
NormalizeDate(df) ==
    /\ ppc = "idle"
    /\ nruns < MaxRuns
    /\ nruns' = nruns + 1
    /\ enriched' = CompleteFile(df, FALSE)
    /\ ~MappingUnreadable(mapping)
    /\ \E ends \in ConverterEnds :
       \E new \in Orderings({NewMapping(name, ends) :
                    name \in UnmappedCountries(df, LoadedMapping(mapping))}) :
          /\ mapping' = MappingFile(UpdatedMapping(new, LoadedMapping(mapping)),
                                    MappingColumns)
          /\ output' = CompleteFile(NormalizedFrame(df, mapping'.rows), FALSE)
    /\ converted' = converted \cup
          {<<nruns + 1, name>> : name \in PassedToConverter(df, LoadedMapping(mapping))}
    /\ status' = "completed"
    /\ UNCHANGED <<geoVars, botVars, worldVars, taskVars, zip_file, csv_file, ppc, force,
                   ran, existed, snap>>

NextCountry == \E df \in CountryFrames : NormalizeDate(df)

SpecCountry == Init /\ [][NextCountry]_vars

\* ------ specification: country normalisation over a mapping file that
\* ------ another writer may replace between the write and the verification

\* Lines 467-512: the mapping file is updated; the output of the new date
\* does not exist yet.
WriteMapping(df) ==
    /\ ppc = "idle"
    /\ nruns < MaxRuns
    /\ nruns' = nruns + 1
    /\ enriched' = CompleteFile(df, FALSE)
    /\ output' = AbsentFile
    /\ ~MappingUnreadable(mapping)
    /\ \E ends \in ConverterEnds :
       \E new \in Orderings({NewMapping(name, ends) :
                    name \in UnmappedCountries(df, LoadedMapping(mapping))}) :
          mapping' = MappingFile(UpdatedMapping(new, LoadedMapping(mapping)),
                                 MappingColumns)
    /\ converted' = converted \cup
          {<<nruns + 1, name>> : name \in PassedToConverter(df, LoadedMapping(mapping))}
    /\ status' = "running"
    /\ ran' = {"write"}
    /\ ppc' = "verify"
    /\ UNCHANGED <<geoVars, botVars, worldVars, taskVars, zip_file, csv_file, force,
                   existed, snap>>

\* Line 506: collect() raises on a mapping file without the two columns,
\* before anything is written.
WriteMappingRaises(df) ==
    /\ ppc = "idle"
    /\ nruns < MaxRuns
    /\ nruns' = nruns + 1
    /\ enriched' = CompleteFile(df, FALSE)
    /\ output' = AbsentFile
    /\ MappingUnreadable(mapping)
    /\ status' = "raised"
    /\ ran' = {}
    /\ UNCHANGED <<geoVars, botVars, worldVars, taskVars, zip_file, csv_file, mapping, ppc,
                   force, existed, snap, converted>>

\* Line 514 reads the file that is on disk: another writer has replaced
\* it by an empty table that lacks a column.
MappingFileReplaced ==
    /\ ppc = "verify"
    /\ \E columns \in (SUBSET MappingColumns) \ {MappingColumns} :
          mapping' = MappingFile(<<>>, columns)
    /\ UNCHANGED <<geoVars, botVars, worldVars, taskVars, zip_file, csv_file, enriched,
                   output, runVars, converted>>

\* Lines 515-518: a required column is missing, ValueError.
VerifyMappingRaises ==
    /\ ppc = "verify"
    /\ MissingColumns(mapping)
    /\ status' = "raised"
    /\ ppc' = "idle"
    /\ UNCHANGED <<geoVars, botVars, worldVars, taskVars, artifactVars, force, ran, existed,
                   nruns, snap, converted>>

\* Lines 521-536: the mappings are applied and the output is written.
ApplyMapping ==
    /\ ppc = "verify"
    /\ ~MissingColumns(mapping)
    /\ output' = CompleteFile(NormalizedFrame(enriched.rows, mapping.rows), FALSE)
    /\ status' = "completed"
    /\ ppc' = "idle"
    /\ UNCHANGED <<geoVars, botVars, worldVars, taskVars, zip_file, csv_file, enriched,
                   mapping, force, ran, existed, nruns, snap, converted>>

NextStorage ==
    \/ \E df \in CountryFrames : WriteMapping(df)
    \/ \E df \in CountryFrames : WriteMappingRaises(df)
    \/ MappingFileReplaced
    \/ VerifyMappingRaises
    \/ ApplyMapping

SpecStorage == Init /\ [][NextStorage]_vars

\* --------- specification: one get_ip_location_from_geolocation_db call

\* range(5), line 67.
Attempts == 5

\* attempt < 4, line 74.
SleepBefore == 4

\* response.status_code == 200, line 70.
StatusOk == 200

\* The status codes other than 200 that the API answers with.
OtherStatuses == {500}

\* The keys of the JSON body that lines 80-98 read.
ApiKeys ==
    {"country_code", "country_name", "state", "city", "latitude", "longitude",
     "postal"}

\* What data.get(key) gives for a key of the body: the sentinel
\* "Not found", or a value.
ApiValues == {Some("Not found"), Some("v")}

\* The JSON bodies of a 200 response: every key with a value, or an object
\* without the keys, for which data.get(key) is None.
LookupBodies == [ApiKeys -> ApiValues] \cup {[key \in ApiKeys |-> Null]}

\* The ip the lookup is called with.
LookupIp == CleanedIp(1)

\* data.get(key) if data.get(key) != 'Not found' else None, mutated: the
\* value is kept as it is.
StoredMut(data, key) == data[key]

\* data.get(key) if data.get(key) != 'Not found' else None.
Stored(data, key) ==
    IF IsNull(data[key]) THEN Null ELSE NotFoundToNull(data[key][1])

\* Lines 83-87 and 99: the UTC offset of the timezone TimezoneFinder gives
\* for the coordinates, when there are coordinates and it finds one.
Timezones(data) ==
    IF IsNull(Stored(data, "latitude")) \/ IsNull(Stored(data, "longitude"))
    THEN {Null}
    ELSE {Null, Some("+01:00")}

\* Lines 89-100: the dict the lookup returns.
LookupDict(ip, data, tz) ==
    [ip_from |-> IPv4AddressInt(ip), ip_to |-> IPv4AddressInt(ip),
     country_code |-> Stored(data, "country_code"),
     country_name |-> Stored(data, "country_name"),
     region_name |-> Stored(data, "state"),
     city_name |-> Stored(data, "city"),
     latitude |-> Stored(data, "latitude"),
     longitude |-> Stored(data, "longitude"),
     zip_code |-> Stored(data, "postal"),
     timezone |-> tz]

\* range(5) is exhausted after the iteration of attempt a, mutated: the
\* loop makes one more iteration.
LoopExhaustedMut(a) == a = Attempts

\* range(5) is exhausted after the iteration of attempt a.
LoopExhausted(a) == a + 1 = Attempts

\* Line 113: process_single_ip calls the lookup.
LookupCalled ==
    /\ lpc = "idle"
    /\ events = <<>>
    /\ lpc' = "request"
    /\ UNCHANGED <<attempt, events, response, lookup_result>>

\* Lines 69-71: the request is answered with status 200; the loop breaks.
RequestOk ==
    /\ lpc = "request"
    /\ \E body \in {Null} \cup {Some(b) : b \in LookupBodies} :
          response' = Some([status_code |-> StatusOk, body |-> body])
    /\ events' = Append(events, "ok")
    /\ lpc' = "parse"
    /\ UNCHANGED <<attempt, lookup_result>>

\* Lines 69-70 and 76-77: the request is answered with another status; the
\* loop goes to its next iteration, or ends and None is returned.
RequestNotOk ==
    /\ lpc = "request"
    /\ \E code \in OtherStatuses :
          response' = Some([status_code |-> code, body |-> Null])
    /\ events' = Append(events, "status")
    /\ IF LoopExhausted(attempt)
       THEN lpc' = "returned" /\ UNCHANGED attempt
       ELSE lpc' = "request" /\ attempt' = attempt + 1
    /\ UNCHANGED lookup_result

\* Lines 72-77: requests.get raises; the error is logged, and the loop
\* sleeps before its next iteration, or ends and None is returned.
RequestRaises ==
    /\ lpc = "request"
    /\ events' = Append(events, "exception")
    /\ IF attempt < SleepBefore
       THEN lpc' = "sleep" /\ UNCHANGED attempt
       ELSE IF LoopExhausted(attempt)
            THEN lpc' = "returned" /\ UNCHANGED attempt
            ELSE lpc' = "request" /\ attempt' = attempt + 1
    /\ UNCHANGED <<response, lookup_result>>

\* Line 75: time.sleep(1), then the next iteration.
Sleep ==
    /\ lpc = "sleep"
    /\ events' = Append(events, "sleep")
    /\ attempt' = attempt + 1
    /\ lpc' = "request"
    /\ UNCHANGED <<response, lookup_result>>

\* Lines 79-100: the body is parsed and the dict is returned.
ParseBody ==
    /\ lpc = "parse"
    /\ ~IsNull(response[1].body)
    /\ \E tz \in Timezones(response[1].body[1]) :
          lookup_result' = Some(LookupDict(LookupIp, response[1].body[1], tz))
    /\ lpc' = "returned"
    /\ UNCHANGED <<attempt, events, response>>

\* Line 79: the body is not JSON and response.json() raises.
ParseBodyRaises ==
    /\ lpc = "parse"
    /\ IsNull(response[1].body)
    /\ lpc' = "raised"
    /\ UNCHANGED <<attempt, events, response, lookup_result>>

NextLookup ==
    /\ \/ LookupCalled
       \/ RequestOk
       \/ RequestNotOk
       \/ RequestRaises
       \/ Sleep
       \/ ParseBody
       \/ ParseBodyRaises
    /\ UNCHANGED <<geoVars, botVars, worldVars, artifactVars, runVars, converted,
                   poolVars>>

\* Every request ends, with a response or with an exception.
SpecLookup == Init /\ [][NextLookup]_vars /\ WF_vars(NextLookup)

\* -------------- specification: the worker pool of a round, lines 159-200

\* IPRetriever.MAX_WORKERS, line 36.
MAX_WORKERS == 16

\* Mutated: the pool starts a worker process for every task.
HasIdleWorkerMut == TRUE

\* ProcessPoolExecutor(max_workers=MAX_WORKERS): a worker process is free
\* to take a task.
HasIdleWorker == workers < MAX_WORKERS

\* Lines 159-173: the pool is opened and one task is submitted for each of
\* the n unique IPs.
PoolSubmit(n) ==
    /\ ntasks = 0
    /\ ntasks' = n
    /\ queued' = n
    /\ workers' = 0

\* A worker process takes the next task and calls process_single_ip.
WorkerTakes ==
    /\ queued > 0
    /\ HasIdleWorker
    /\ queued' = queued - 1
    /\ workers' = workers + 1
    /\ UNCHANGED ntasks

\* The lookup of a worker process ends and its future completes.
WorkerDone ==
    /\ workers > 0
    /\ workers' = workers - 1
    /\ UNCHANGED <<ntasks, queued>>

\* Lines 175-200: as_completed has yielded every future and the with block
\* shuts the pool down.
PoolShutdown ==
    /\ ntasks > 0
    /\ queued = 0 /\ workers = 0
    /\ ntasks' = 0
    /\ UNCHANGED <<queued, workers>>

NextPool ==
    /\ \/ \E n \in 1..MaxTasks : PoolSubmit(n)
       \/ WorkerTakes
       \/ WorkerDone
       \/ PoolShutdown
    /\ UNCHANGED <<geoVars, botVars, worldVars, artifactVars, runVars, converted,
                   lookupVars>>

SpecPool == Init /\ [][NextPool]_vars

\* ------------------------------------------------- claims: GeoLookupCache

\* The rows of the persisted table whose key is the integer of ip.
PersistedRows(ip) ==
    {i \in 1..Len(canon.rows) : canon.rows[i].ip_from = Some(IPv4AddressInt(ip))}

\* C1: an IP whose external lookup succeeded in a persisted resolve call (a
\* row with a non-null country_code was written for it) is not submitted for
\* external lookup in any later resolve call.
C1_ResolvedNeverResubmitted == \A ip \in hist.ok : ip \notin pending

\* C2: an IP whose external lookup failed in a persisted resolve call is not
\* submitted for external lookup in any later resolve call.
C2_FailedNeverResubmitted == \A ip \in hist.failed : ip \notin pending

\* C3: after any sequence of resolve calls, every IP that was submitted for
\* an external lookup has exactly one persisted row with
\* geolocation_db_attempted = true, whatever the outcome of its task.
C3_OneAttemptedRowPerSubmittedIp ==
    (pc = "idle" /\ canon.state = "complete") =>
        \A ip \in hist.submitted :
            Cardinality({i \in PersistedRows(ip) :
                canon.rows[i].geolocation_db_attempted = Some(TRUE)}) = 1

\* C4: starting from tables in which ip_from is a key, the persisted table
\* never holds two rows for one ip_from: a new result row never coexists
\* with a retained older row, so no IP has two rows with a country_code.
C4_OneRowPerIp ==
    canon.state = "complete" =>
        \A i, j \in 1..Len(canon.rows) :
            canon.rows[i].ip_from = canon.rows[j].ip_from => i = j

\* C4's case: the lookup of 10.0.1.0, which the reference table lists without
\* a country, returned a country and the round was persisted.
C4_Witness ==
    /\ pc = "canon_written"
    /\ \E i \in PersistedRows(CleanedIp(1)) :
          /\ ~IsNull(canon.rows[i].country_code)
          /\ canon.rows[i].geolocation_db_attempted = Some(TRUE)

\* C5: wherever the persist step is interrupted, the canonical file is not
\* left partially written.
C5_CanonicalNeverPartial == returned = "interrupted" => canon.state # "partial"

\* ------------------------------------------------- claims: preprocess

\* C6: in every pipeline run each of the stages clean, geo-enrich and
\* country-normalize is executed only if its output artifact did not exist
\* when the stage was reached or the force flag is set.
C6_StagesGated ==
    \A stage \in {"clean", "enrich", "normalize"} :
        stage \in ran => (stage \notin existed \/ force)

\* C7: when a full pipeline run follows a full run on the same input, it
\* ends with the same final output, the same geolocation cache and the same
\* country mapping table as the run before it.
C7_RunTwiceSameTables ==
    (status = "completed" /\ ~IsNull(snap)) => Snapshot = snap[1]

\* ------------------------------------------------------ claims: BotFilter

\* The qualifying records of ip in the raw log: code = 200, idx = 0, crawler = 0.
QualifyingRows(ip) ==
    {r \in DOMAIN raw.rows : r.ip = ip /\ r.code = 200 /\ r.idx = 0 /\ r.crawler = 0}

\* The calendar minute of a record: its date, hour and minute.
CalendarMinute(r) == <<r.date, r.time[1], r.time[2]>>

\* The qualifying records of ip in calendar minute m.
QualifyingRowsInMinute(ip, m) == {r \in QualifyingRows(ip) : CalendarMinute(r) = m}

LogMinutes == {CalendarMinute(r) : r \in DOMAIN raw.rows}

LogIps == {r.ip : r \in DOMAIN raw.rows}

\* The ips that have a record in the filtered output.
OutputIps == {r.ip : r \in DOMAIN no_bots.rows}

\* C8: an ip with more than 500 qualifying records in the whole log has no
\* record in the filtered output, however the records are spread over the
\* minutes; an ip with exactly 500 is not flagged by R3.
C8_DailyVolumeExcluded ==
    cleaning # "none" =>
        \A ip \in LogIps :
            /\ CountRows(raw.rows, QualifyingRows(ip)) > 500 => ip \notin OutputIps
            /\ CountRows(raw.rows, QualifyingRows(ip)) = 500 => ip \notin rpv.cond3

\* C8's case: an ip excluded by R3 alone, with at most 25 requests and at
\* most 3 ciks in every minute.
C8_Witness ==
    /\ cleaning = "done"
    /\ \E ip \in LogIps :
          /\ CountRows(raw.rows, QualifyingRows(ip)) > 500
          /\ ip \notin rpv.cond1 /\ ip \notin rpv.cond2
          /\ ip \notin OutputIps

\* C9: an ip is flagged by R1 iff in some calendar minute it has more than
\* 25 qualifying records, and a flagged ip has no record in the filtered
\* output.
C9_BurstRule ==
    cleaning # "none" =>
        \A ip \in LogIps :
            /\ ip \in rpv.cond1 <=>
                  \E m \in LogMinutes : CountRows(raw.rows, QualifyingRowsInMinute(ip, m)) > 25
            /\ ip \in rpv.cond1 => ip \notin OutputIps

\* C9's case: 30 qualifying records of one ip inside one calendar minute,
\* flagged by R1 alone and absent from the output.
C9_Witness ==
    /\ cleaning = "done"
    /\ \E ip \in LogIps :
          /\ \E m \in LogMinutes : CountRows(raw.rows, QualifyingRowsInMinute(ip, m)) = 30
          /\ ip \in rpv.cond1 /\ ip \notin rpv.cond2 /\ ip \notin rpv.cond3
          /\ ip \notin OutputIps

\* C10: an ip is flagged by R2 iff in some calendar minute its qualifying
\* records reference more than 3 distinct cik values.
C10_FanOutRule ==
    cleaning # "none" =>
        \A ip \in LogIps :
            ip \in rpv.cond2 <=>
                \E m \in LogMinutes :
                    Cardinality({r.cik : r \in QualifyingRowsInMinute(ip, m)}) > 3

\* C10's case: an ip flagged by R2 alone, and in the same log an ip or a
\* minute with more than 3 records of at most 3 ciks that R2 does not flag.
C10_Witness ==
    /\ cleaning = "done"
    /\ \E ip \in LogIps : ip \in rpv.cond2 /\ ip \notin rpv.cond1 /\ ip \notin rpv.cond3
    /\ \E ip \in LogIps : ip \in rpv.cond1 /\ ip \notin rpv.cond2

\* ------------------------------------------- claims: BotFilter, its frame

\* ip triggers R1, R2 or R3 on the raw log.
TriggersRule(ip) ==
    \/ \E m \in LogMinutes : CountRows(raw.rows, QualifyingRowsInMinute(ip, m)) > 25
    \/ \E m \in LogMinutes : Cardinality({r.cik : r \in QualifyingRowsInMinute(ip, m)}) > 3
    \/ CountRows(raw.rows, QualifyingRows(ip)) > 500

\* The fields of the raw log of a row of a later frame.
OriginalFields(o) ==
    [ip |-> o.ip, date |-> o.date, time |-> o.time, cik |-> o.cik,
     accession |-> o.accession, code |-> o.code, idx |-> o.idx, crawler |-> o.crawler]

\* Frame B holds every qualifying record of an ip that triggers no rule as
\* often as the raw log does, with its fields unchanged, and nothing else.
ExactlyTheKeptRecords(B) ==
    /\ \A o \in DOMAIN B : OriginalFields(o) \in DOMAIN raw.rows
    /\ \A r \in DOMAIN raw.rows :
          CountRows(B, {o \in DOMAIN B : OriginalFields(o) = r}) =
              IF r \in QualifyingRows(r.ip) /\ ~TriggersRule(r.ip) THEN raw.rows[r] ELSE 0

\* C11: the filtered frame, and the filtered output when it is written,
\* holds exactly the qualifying records whose ip triggers none of R1, R2 and
\* R3, each once and with its original fields unchanged.
C11_ExactlyUnflaggedKept ==
    cleaning # "none" =>
        /\ ExactlyTheKeptRecords(filtered_df)
        /\ cleaning = "done" => ExactlyTheKeptRecords(no_bots.rows)

\* C11's case: one ip triggers a rule and has no record in the output, and
\* the records of another ip are kept.
C11_Witness ==
    /\ cleaning = "done"
    /\ \E ip \in LogIps : TriggersRule(ip) /\ QualifyingRows(ip) # {} /\ ip \notin OutputIps
    /\ \E ip \in LogIps : ~TriggersRule(ip) /\ ip \in OutputIps

\* The ips that have a record in the filtered frame.
FilteredIps == {r.ip : r \in DOMAIN filtered_df}

\* C12 as stated: the ip values of the BotFilter output are a strict subset
\* of the ip values of its input, for every input.
C12_StrictSubsetOfIps ==
    cleaning # "none" => (FilteredIps \subseteq LogIps /\ FilteredIps # LogIps)

\* C12 amended: the ip values of the BotFilter output are a subset of the ip
\* values of its input, and a strict one exactly when some input ip triggers
\* a rule or has no qualifying record.
C12_SubsetOfIps ==
    cleaning # "none" =>
        /\ FilteredIps \subseteq LogIps
        /\ OutputIps \subseteq LogIps
        /\ FilteredIps # LogIps <=>
              \E ip \in LogIps : TriggersRule(ip) \/ QualifyingRows(ip) = {}

\* C12's case: no ip of the log is removed, and the output has the ips of
\* the input.
C12_Witness ==
    /\ cleaning = "done"
    /\ LogIps # {}
    /\ OutputIps = LogIps

\* ------------------------------------------------ claims: IP normaliser

\* s has the shape of three dot-separated groups of 1 to 3 digits followed
\* by a dot and one non-empty token without dots or whitespace.
DottedShape(s) ==
    /\ Len(s) = 4
    /\ \A i \in 1..3 :
          /\ Len(s[i]) >= 1 /\ Len(s[i]) <= 3
          /\ \A k \in 1..Len(s[i]) :
                s[i][k] \in {"0", "1", "2", "3", "4", "5", "6", "7", "8", "9"}
    /\ s[4] # <<>>
    /\ \A k \in 1..Len(s[4]) : s[4][k] \notin {" ", "\t", "\n"}

\* C13: IP normalization never raises, whatever the raw ip string: the
\* cleaning stage completes also for a string of the dotted shape with a
\* group above 255.
C13_NormalizationNeverRaises == cleaning # "raised"

\* Row o carries the normalization of its raw ip as C14 states it.
NormalizedAsStated(o) ==
    /\ IsNull(o.cleaned_ip) <=> ~DottedShape(o.ip)
    /\ DottedShape(o.ip) => o.cleaned_ip = Some(<<o.ip[1], o.ip[2], o.ip[3], <<"0">>>>)
    /\ IsNull(o.cleaned_ip_int) <=> IsNull(o.cleaned_ip)

\* C14: every raw ip string s of a kept record is normalized: cleaned_ip is
\* null iff s does not have the dotted shape, it is the first three groups
\* followed by ".0" when s has it, and cleaned_ip_int is null iff cleaned_ip
\* is null.
C14_NormalizedShape ==
    cleaning # "none" =>
        \A r \in DOMAIN filtered_df :
            \E o \in DOMAIN no_bots.rows : o.ip = r.ip /\ NormalizedAsStated(o)

\* C15: a non-null key is a * 2^24 + b * 2^16 + c * 2^8 for the three digit
\* groups a, b, c of the raw ip: its upper half is a * 2^8 + b, its lower
\* half is c * 2^8, with a, b, c in 0..255, so the key lies in 0..2^32-1
\* and its low 8 bits are zero.
C15_KeyIsBigEndianValue ==
    \A o \in DOMAIN no_bots.rows :
        ~IsNull(o.cleaned_ip_int) =>
            /\ \A i \in 1..3 : DecimalValue(o.ip[i]) \in 0..255
            /\ o.cleaned_ip_int[1] =
                  <<DecimalValue(o.ip[1]) * 256 + DecimalValue(o.ip[2]),
                    DecimalValue(o.ip[3]) * 256>>

\* C15's case: 192.168.1.55 gives cleaned_ip 192.168.1.0 and the key
\* 3232235776 = 49320 * 2^16 + 256.
C15_Witness ==
    /\ cleaning = "done"
    /\ \E o \in DOMAIN no_bots.rows :
          /\ o.ip = <<<<"1", "9", "2">>, <<"1", "6", "8">>, <<"1">>, <<"5", "5">>>>
          /\ o.cleaned_ip = Some(<<<<"1", "9", "2">>, <<"1", "6", "8">>, <<"1">>, <<"0">>>>)
          /\ o.cleaned_ip_int = Some(<<49320, 256>>)

\* ------------------------------------------------ claims: CountryMapping

\* C16: across normalize calls the country mapping table only grows: a
\* call never lowers its number of rows, and every row that was persisted
\* before a call is persisted, with the same cleaned value, after it.
C16_MappingOnlyGrows ==
    [][mapping.state = "complete" =>
          /\ mapping'.state = "complete"
          /\ Len(mapping'.rows) >= Len(mapping.rows)
          /\ \A i \in 1..Len(mapping.rows) :
                \E j \in 1..Len(mapping'.rows) : mapping'.rows[j] = mapping.rows[i]]_vars

\* Two calls have been made, and each of them added rows to the table.
C16_Witness ==
    /\ nruns = 2
    /\ Len(mapping.rows) >= 2
    /\ \E c, d \in converted : c[1] = 1 /\ d[1] = 2

\* The rows of the persisted mapping table whose raw name is name.
MappingEntries(name) ==
    {i \in 1..Len(mapping.rows) : mapping.rows[i].raw_country_name = Some(name)}

\* The country names that occur in the input records of the last call.
InputCountries ==
    {r.country_name[1] : r \in {q \in DOMAIN enriched.rows : ~IsNull(q.country_name)}}

\* C17: after a normalize call, every raw country name of the call's input
\* records has an entry in the persisted mapping table, and the entry of a
\* name that cannot be converted maps the name to itself.
C17_EveryInputNameMapped ==
    status = "completed" =>
        \A name \in InputCountries :
            /\ MappingEntries(name) # {}
            /\ name \notin KnownCountries =>
                  \A i \in MappingEntries(name) :
                      mapping.rows[i].cleaned_country_name = Some(name)

\* C18: a name that has an entry in the persisted mapping table is not
\* passed to the converter by a later call (the converter gets only names
\* absent from the table), and a call whose input is the input of the
\* call before it adds no row to the table.
C18_NoReconversionNoNewRow ==
    [][/\ \A c \in converted' \ converted :
             \A i \in 1..Len(mapping.rows) :
                 mapping.rows[i].raw_country_name # Some(c[2])
       /\ \A c \in converted' \ converted :
             \A d \in converted : d[2] # c[2]
       /\ (nruns' = nruns + 1 /\ enriched.state = "complete"
             /\ enriched'.rows = enriched.rows)
            => Len(mapping'.rows) = Len(mapping.rows)]_vars

\* The number of records of a table of log records.
RecordCount(B) == CountRows(B, DOMAIN B)

\* C19: when the conversion of an unmapped name fails, the new row maps the
\* name to itself, the call ends without an error, and the output has
\* exactly one record for each input record.
C19_FailedConversionFallsBack ==
    \A c \in converted :
        (c[1] = nruns /\ c[2] \notin KnownCountries) =>
            /\ \E i \in MappingEntries(c[2]) :
                  mapping.rows[i].cleaned_country_name = Some(c[2])
            /\ status = "completed"
            /\ RecordCount(output.rows) = RecordCount(enriched.rows)
            /\ \A r \in DOMAIN enriched.rows :
                  \E o \in DOMAIN output.rows :
                      /\ [o EXCEPT !.country_name = r.country_name] = r
                      /\ output.rows[o] = enriched.rows[r]

\* C20: when the mapping file lacks the raw_country_name or the
\* cleaned_country_name column after the call has written it, the call
\* ends in an error and has not written the output of its date.
C20_MissingColumnIsFatal ==
    (ppc = "idle" /\ ran = {"write"} /\ ~(MappingColumns \subseteq mapping.columns)) =>
        (status = "raised" /\ output.state = "absent")

\* A call wrote the mapping, found the file without raw_country_name and
\* ended in the error.
C20_Witness ==
    /\ ppc = "idle"
    /\ ran = {"write"}
    /\ status = "raised"
    /\ "raw_country_name" \notin mapping.columns

\* ------------------------------------------------------ claims: preprocess

RequestEvents == {i \in 1..Len(events) : events[i] # "sleep"}

\* History: the positions of the failed HTTP attempts.
FailedEvents == {i \in 1..Len(events) : events[i] \in {"status", "exception"}}

C23_PauseAfterEveryFailure ==
    \A i \in FailedEvents : i < Len(events) => events[i + 1] = "sleep"

\* The stored fields of the dict, with the key of the body each is read from.
StoredFields ==
    {<<"country_code", "country_code">>, <<"country_name", "country_name">>,
     <<"region_name", "state">>, <<"city_name", "city">>,
     <<"latitude", "latitude">>, <<"longitude", "longitude">>,
     <<"zip_code", "postal">>}

\* C29: for a response with status 200 and each parsed field, the stored
\* value is null when the value of the API is "Not found" and the value of
\* the API otherwise; "Not found" is never stored.
C29_NotFoundBecomesNull ==
    (lpc = "returned" /\ ~IsNull(lookup_result)) =>
        \A f \in StoredFields :
            /\ lookup_result[1][f[1]] =
                  IF response[1].body[1][f[2]] = Some("Not found") THEN Null
                  ELSE response[1].body[1][f[2]]
            /\ lookup_result[1][f[1]] # Some("Not found")

\* A dict was returned for a body whose latitude is "Not found" and whose
\* country_code is a value: the one is stored as null, the other as it is.
C29_Witness ==
    /\ lpc = "returned" /\ ~IsNull(lookup_result)
    /\ response[1].body[1]["latitude"] = Some("Not found")
    /\ lookup_result[1].latitude = Null
    /\ response[1].body[1]["country_code"] = Some("v")
    /\ lookup_result[1].country_code = Some("v")

\* C24: during a round at most 16 lookups are in progress at any moment,
\* however many IPs need one.
C24_AtMostSixteenInProgress == workers <= 16

\* Sixteen lookups are in progress and further tasks wait for a worker.
C24_Witness == workers = 16 /\ queued > 0

\* ------------------------------------------- claims: the resolve round

\* History: the IPs of the round whose lookup has completed.
CompletedIps == {c.ip : c \in call}

\* The states in which the round writes its files.
Persisting == pc \in {"tmp_writing", "tmp_written", "canon_writing", "canon_written"}

\* C25: the completion of a lookup leaves the files of the table as they
\* are; the table is written only when every submitted lookup has
\* completed, once in a round; no submitted lookup is dropped: an IP
\* leaves the pending ones only by the completion of its lookup, and when
\* the round writes none is pending.
C25_WriteAfterAllLookups ==
    /\ [](Persisting => (pending = {} /\ CompletedIps # {}))
    /\ [][/\ pending' # pending => UNCHANGED <<canon, tmp>>
          /\ canon' # canon => (pending = {} /\ pc \in {"tmp_written", "canon_writing"})
          /\ (pc = "lookup" /\ pc' = "lookup") =>
                pending \ pending' \subseteq {c.ip : c \in call'}]_vars

\* Two lookups of a round completed, one of them with an exception, and
\* the round has written the table.
C25_Witness ==
    /\ pc = "canon_written"
    /\ Cardinality(CompletedIps) >= 2
    /\ \E c \in call : c.outcome.kind = "raise"

\* The persisted table as a new instance would load it: the canonical file,
\* with the attempted column added as false when the file has none, and the
\* reference table while there is no canonical file.
ExistingTable ==
    IF canon.state # "complete" THEN WithAttemptedFalse(bulk)
    ELSE IF canon.hasAtt THEN canon.rows
    ELSE WithAttemptedFalse(canon.rows)

\* C26: a resolve call in which no IP of the caller needs a lookup submits
\* no lookup, writes neither the temporary nor the canonical file, and
\* returns the existing table unchanged.
C26_NothingMissingIsNoOp ==
    [][(pc = "idle" /\ pc' = "idle" /\ ncalls' = ncalls + 1) =>
          /\ pending' = {}
          /\ UNCHANGED <<canon, tmp>>
          /\ returned' = "self"
          /\ CombinedFrame(retriever) = ExistingTable]_vars

\* A row of the table that is resolved or attempted.
Settled(r) == ~IsNull(r.country_code) \/ r.geolocation_db_attempted = Some(TRUE)

\* C27: every row of the table persisted before a round that has a
\* country_code or geolocation_db_attempted = true is present, unchanged,
\* in the table the round persists, the rows of IPs that the caller did not
\* supply included.
C27_SettledRowsKept ==
    [][/\ (canon.state = "complete" /\ canon'.state = "partial") =>
             \A i \in 1..Len(ExistingTable) :
                 Settled(ExistingTable[i]) =>
                     \E j \in 1..Len(merged') : merged'[j] = ExistingTable[i]
       /\ (canon.state = "partial" /\ canon'.state = "complete") =>
             canon'.rows = merged]_vars

\* The rows that the join of lines 132-137 matches with the ip_df row r.
JoinMatches(r) ==
    {i \in 1..Len(CombinedFrame(retriever)) :
        ~IsNull(r.cleaned_ip_int) /\ CombinedFrame(retriever)[i].ip_from = r.cleaned_ip_int}

\* The ip_df row r needs a lookup: its cleaned_ip is not null, and its
\* joined row has no country_code and geolocation_db_attempted false or
\* absent.
NeedsLookupAsStated(r) ==
    /\ ~IsNull(r.cleaned_ip)
    /\ \/ JoinMatches(r) = {}
       \/ \E i \in JoinMatches(r) :
             /\ IsNull(CombinedFrame(retriever)[i].country_code)
             /\ CombinedFrame(retriever)[i].geolocation_db_attempted # Some(TRUE)

\* C28: in a resolve call an IP is submitted for a lookup iff it is an IP of
\* the caller with a non-null cleaned_ip whose joined row has country_code
\* null and geolocation_db_attempted not true, and it is submitted once.
C28_SubmittedIffNeeded ==
    /\ [](pc = "lookup" =>
            /\ \A ip \in CleanedIps :
                  ip \in pending \cup CompletedIps <=>
                      \E r \in ip_df : r.cleaned_ip = Some(ip) /\ NeedsLookupAsStated(r)
            /\ pending \cap CompletedIps = {}
            /\ \A c, d \in call : c.ip = d.ip => c = d)
    /\ [][pc = "lookup" => pending' \subseteq pending]_vars

\* A call has submitted an IP while its ip_df also holds an IP that has a
\* country and a row without cleaned_ip, neither of which is submitted.
C28_Witness ==
    /\ pc = "lookup"
    /\ pending # {}
    /\ \E r \in ip_df : IsNull(r.cleaned_ip)
    /\ \E r \in ip_df : ~IsNull(r.cleaned_ip) /\ r.cleaned_ip[1] \notin pending \cup CompletedIps

\* The non-null cleaned names that the persisted mapping table has for the
\* raw name of record r.
CleanedNames(r) ==
    {mapping.rows[i].cleaned_country_name :
        i \in {j \in 1..Len(mapping.rows) :
                  /\ mapping.rows[j].raw_country_name = r.country_name
                  /\ ~IsNull(mapping.rows[j].cleaned_country_name)}}

\* The records that the claim allows in the output for the input record r.
StatedOutputs(r) ==
    IF CleanedNames(r) = {} THEN {r}
    ELSE {[r EXCEPT !.country_name = name] : name \in CleanedNames(r)}

\* C30: in the country-normalized output every input record appears, as
\* often as in the input, with all fields unchanged except country_name,
\* which is the cleaned name of the mapping of its raw name when that is
\* not null, and the raw name otherwise; the output has no other record.
C30_OutputIsInputWithCleanedName ==
    (status = "completed" /\ output.state = "complete") =>
        /\ \A r \in DOMAIN enriched.rows :
              \E o \in StatedOutputs(r) :
                  /\ o \in DOMAIN output.rows
                  /\ output.rows[o] = enriched.rows[r]
        /\ \A o \in DOMAIN output.rows :
              \E r \in DOMAIN enriched.rows : o \in StatedOutputs(r)
        /\ RecordCount(output.rows) = RecordCount(enriched.rows)

\* A call wrote an output in which the name of a record is replaced by the
\* cleaned name and a record without a name is kept as it is.
C30_Witness ==
    /\ status = "completed"
    /\ output.state = "complete"
    /\ \E r \in DOMAIN enriched.rows :
          r.country_name = Some("USA") /\ r \notin DOMAIN output.rows
    /\ \E r \in DOMAIN enriched.rows :
          IsNull(r.country_name) /\ r \in DOMAIN output.rows

\* ------------------------------------------------- claims: stage chain

\* The columns of the filtered log in an enriched or normalized record.
FilteredColumns(e) ==
    [ip |-> e.ip, date |-> e.date, time |-> e.time, cik |-> e.cik,
     accession |-> e.accession, code |-> e.code, idx |-> e.idx,
     crawler |-> e.crawler, datetime |-> e.datetime,
     cleaned_ip |-> e.cleaned_ip, cleaned_ip_int |-> e.cleaned_ip_int]

\* The artifact of a stage holds what the stage makes of the artifact
\* before it, as that one is on disk now.
DerivedFromPredecessor(stage) ==
    CASE stage = "download" -> TRUE
      [] stage = "extract" -> csv_file.rows = zip_file.rows
      [] stage = "convert" -> raw.rows = csv_file.rows
      [] stage = "clean" -> no_bots.rows = CleanedFrame(raw.rows)
      [] stage = "enrich" ->
           {FilteredColumns(e) : e \in DOMAIN enriched.rows} = DOMAIN no_bots.rows
      [] stage = "normalize" ->
           {FilteredColumns(o) : o \in DOMAIN output.rows}
               = {FilteredColumns(e) : e \in DOMAIN enriched.rows}

\* A run without the force flag has ended with the last stage.
UnforcedRunCompleted == ppc = "idle" /\ status = "completed" /\ ~force

\* Every stage after a stage that the run recomputed was recomputed too.
RecomputeCascades ==
    \A i, j \in 1..Len(Stages) : (i < j /\ Stages[i] \in ran) => Stages[j] \in ran

\* Every artifact is derived from the artifact before it as it is now.
AllDerived == \A i \in 1..Len(Stages) : DerivedFromPredecessor(Stages[i])

\* Every artifact that the run recomputed is derived from the artifact
\* before it as it is now.
RecomputedDerived ==
    \A i \in 1..Len(Stages) : Stages[i] \in ran => DerivedFromPredecessor(Stages[i])

\* The run found a set of artifacts of which every one before a present one
\* was present.
StartedFromPrefix ==
    \A i, j \in 1..Len(Stages) : (i < j /\ Stages[j] \in existed) => Stages[i] \in existed

\* C31, as stated: at the end of a run without the force flag, from any set
\* of artifacts on disk, every stage after a recomputed stage was
\* recomputed, and every artifact is derived from the artifact before it as
\* it is now.
C31_RecomputedThenAllLater ==
    [][(ppc # "idle" /\ UnforcedRunCompleted') =>
          (RecomputeCascades /\ AllDerived)']_vars

\* C31, amended: the same for a run that starts from artifacts of which
\* every one before a present one is present, with the derivation stated
\* of the artifacts the run recomputed.
C31_RecomputedThenAllLaterFromPrefix ==
    [][(ppc # "idle" /\ UnforcedRunCompleted' /\ StartedFromPrefix') =>
          (RecomputeCascades /\ RecomputedDerived)']_vars

\* A run without the force flag found the zip, the CSV and the raw Parquet
\* and recomputed the three stages after them.
C31_Witness ==
    /\ UnforcedRunCompleted
    /\ existed = {"download", "extract", "convert"}
    /\ ran = {"clean", "enrich", "normalize"}

\* ------------------------------------- claims: order of the lookup tasks

\* The rows that the tasks of the round give, whatever the order in which
\* they ended: one for each task that returned.
RoundRows ==
    {ResultRow(c.ip, ProcessSingleIp(c.ip, c.outcome)) :
        c \in {x \in call : x.outcome.kind # "raise"}}

\* C32: the table that a resolve round persists, as a set of rows, is the
\* same for every order in which the lookup tasks end: it is the kept rows
\* of the table of the instance and the rows of the set of task results.
C32_PersistedSetIgnoresOrder ==
    [][/\ (pc = "lookup" /\ pc' = "tmp_writing") =>
             SeqToSet(merged') =
                 {r \in SeqToSet(CombinedFrame(retriever)) :
                     ~IsNull(r.country_code) \/ r.geolocation_db_attempted = Some(TRUE)}
                 \cup RoundRows
       /\ (pc = "tmp_writing" /\ pc' = "tmp_written") =>
             SeqToSet(tmp'.rows) = SeqToSet(merged)
       /\ (pc = "canon_writing" /\ pc' = "canon_written") =>
             SeqToSet(canon'.rows) = SeqToSet(tmp.rows)]_vars

\* A round is persisted whose task of 10.0.2.0 ended before its task of
\* 10.0.1.0.
C32_Witness ==
    /\ pc = "canon_written"
    /\ Len(result_dict) = 2
    /\ result_dict[1].ip_from = Some(IPv4AddressInt(CleanedIp(2)))
    /\ result_dict[2].ip_from = Some(IPv4AddressInt(CleanedIp(1)))
    /\ result_dict[1].country_code # result_dict[2].country_code

\* ------------------------------- claims: what the external service gets

\* The records of the filtered log whose /24 block is the address ip: the
\* first three groups of their ip, followed by 0.
RecordsOfBlock(ip) ==
    {r \in DOMAIN no_bots.rows :
        /\ ~IsNull(r.cleaned_ip)
        /\ Len(r.ip) = 4
        /\ ip = <<r.ip[1], r.ip[2], r.ip[3], <<"0">>>>}

C34_OneRowPerRawName ==
    \A i, j \in 1..Len(mapping.rows) :
        mapping.rows[i].raw_country_name = mapping.rows[j].raw_country_name => i = j

\* -------------------------------------- claims: records of the enrichment

\* The frame that get_ip_from_ip2location returned to the stage.
ReturnedFrame == IF returned = "self" THEN CombinedFrame(retriever) ELSE canon.rows

\* The records of the enriched log that come from the filtered record r.
EnrichedOf(r) == {e \in DOMAIN enriched.rows : FilteredColumns(e) = r}

\* The geolocation attributes of the enriched record e are all null.
NoGeolocation(e) ==
    /\ IsNull(e.ip_to)
    /\ IsNull(e.country_code)
    /\ IsNull(e.country_name)
    /\ IsNull(e.geolocation_db_attempted)

\* C35: the enriched log that the geo-enrich stage writes has one record
\* for each record of the filtered log, with the fields of that record,
\* and a record whose cleaned_ip_int is null or has no row with that
\* ip_from has null geolocation attributes.
C35_EnrichKeepsTheRecords ==
    (ppc = "normalize" /\ "enrich" \in ran) =>
        /\ RecordCount(enriched.rows) = RecordCount(no_bots.rows)
        /\ \A r \in DOMAIN no_bots.rows :
              /\ CountRows(enriched.rows, EnrichedOf(r)) = no_bots.rows[r]
              /\ (\/ IsNull(r.cleaned_ip_int)
                  \/ \A i \in 1..Len(ReturnedFrame) :
                        ReturnedFrame[i].ip_from # r.cleaned_ip_int)
                    => \A e \in EnrichedOf(r) : NoGeolocation(e)

\* The stage wrote a log with a record without cleaned_ip_int, a record
\* whose address has no row and a record with a country.
C35_Witness ==
    /\ ppc = "normalize" /\ "enrich" \in ran
    /\ \E r \in DOMAIN no_bots.rows : IsNull(r.cleaned_ip_int)
    /\ \E r \in DOMAIN no_bots.rows :
          /\ ~IsNull(r.cleaned_ip_int)
          /\ \A i \in 1..Len(ReturnedFrame) : ReturnedFrame[i].ip_from # r.cleaned_ip_int
    /\ \E e \in DOMAIN enriched.rows : ~IsNull(e.country_code)

====
